---- MODULE Spec2Model ----
(***************************************************************************)
(* Model of the tucano validators (CPF, CNPJ, CEP, telefone, PIX, placa).  *)
(*                                                                         *)
(* A Python str is a sequence of character tokens.  ASCII characters are   *)
(* one-character strings; the non-ASCII characters the code can meet are   *)
(* named tokens:                                                           *)
(*   "AR3"   U+0663 ARABIC-INDIC DIGIT THREE  (isdigit, int() = 3, \d)     *)
(*   "SUP2"  U+00B2 SUPERSCRIPT TWO           (isdigit, int() raises)      *)
(*   "ZWSP"  U+200B ZERO WIDTH SPACE          (not whitespace)             *)
(* A call either returns a value or raises: Return(v) / Raise(exc, msg).   *)
(***************************************************************************)
EXTENDS Integers, Sequences, FiniteSets, TLC

VARIABLES op, arg, ret, requests, responses, tables, calls

vars == <<op, arg, ret, requests, responses, tables, calls>>

(***************************************************************************)
(* Bounds                                                                  *)
(***************************************************************************)
\* number of trailing random digits of a draw that vary freely; the
\* leading digits of the draw all come out equal to one seed digit
FreeDigits == 1

\* longest raw string given to a clean operation
MaxRawLen == 3

\* number of threads that call the validators at the same time
NumThreads == 2

(***************************************************************************)
(* Python values                                                           *)
(***************************************************************************)
Return(v) == [kind |-> "return", val |-> v]

Raise(e, m) == [kind |-> "raise", exc |-> e, msg |-> m]

\* a call that waits for the answer to the HTTP request it sent to url
Request(url) == [kind |-> "request", url |-> url]

Returned(r) == r.kind = "return"

Raised(r, e) == r.kind = "raise" /\ r.exc = e

ReturnedVal(r, v) == r.kind = "return" /\ r.val = v

AsciiDigits == <<"0", "1", "2", "3", "4", "5", "6", "7", "8", "9">>

AsciiDigitSet == {AsciiDigits[i] : i \in 1..10}

\* str(d) for an int d in 0..9
str(d) == AsciiDigits[d + 1]

\* str.isdigit for one character
isdigit(c) == c \in AsciiDigitSet \cup {"AR3", "SUP2"}

\* \d of a str pattern: the Unicode decimal digits
re_digit(c) == c \in AsciiDigitSet \cup {"AR3"}

\* int(c) succeeds for the decimal digits (Unicode category Nd)
int_ok(c) == c \in AsciiDigitSet \cup {"AR3"}

\* int(c) for one character on which it succeeds
int(c) == IF c = "AR3" THEN 3 ELSE CHOOSE d \in 0..9 : AsciiDigits[d + 1] = c

Min(a, b) == IF a < b THEN a ELSE b

\* the element of a one-element set.  Only({e(v) : v \in {x}}) is e(x) with
\* x computed once and held in v, as a Python local variable holds it
Only(S) == CHOOSE x \in S : TRUE

\* Python slice s[a:b] (0-based, b exclusive, clipped)
Slice(s, a, b) == Only({SubSeq(v, a + 1, Min(b, Len(v))) : v \in {s}})

\* Python slice s[a:]
SliceFrom(s, a) == Only({SubSeq(v, a + 1, Len(v)) : v \in {s}})

\* "".join(map(str, digits)) for a sequence of ints 0..9
join_digits(ds) == Only({[i \in 1..Len(v) |-> str(v[i])] : v \in {ds}})

Lowercase == <<"a", "b", "c", "d", "e", "f", "g", "h", "i", "j", "k", "l", "m",
               "n", "o", "p", "q", "r", "s", "t", "u", "v", "w", "x", "y", "z">>

Uppercase == <<"A", "B", "C", "D", "E", "F", "G", "H", "I", "J", "K", "L", "M",
               "N", "O", "P", "Q", "R", "S", "T", "U", "V", "W", "X", "Y", "Z">>

LowerSet == {Lowercase[i] : i \in 1..26}

UpperSet == {Uppercase[i] : i \in 1..26}

Letters == LowerSet \cup UpperSet

\* str.isspace for one character ("ZWSP" and "BOM" are not whitespace)
Whitespace == {" ", "TAB", "NL", "CR"}

\* str.isalnum for one character
isalnum(c) == c \in Letters \/ isdigit(c)

\* str.upper / str.lower for one character
upper_char(c) == IF c \in LowerSet THEN Uppercase[CHOOSE i \in 1..26 : Lowercase[i] = c] ELSE c

lower_char(c) == IF c \in UpperSet THEN Lowercase[CHOOSE i \in 1..26 : Uppercase[i] = c] ELSE c

upper(s) == Only({[i \in 1..Len(v) |-> upper_char(v[i])] : v \in {s}})

lower(s) == Only({[i \in 1..Len(v) |-> lower_char(v[i])] : v \in {s}})

SetMin(S) == Only({CHOOSE x \in T : \A y \in T : x <= y : T \in {S}})

SetMax(S) == Only({CHOOSE x \in T : \A y \in T : x >= y : T \in {S}})

\* s.strip(chars): drop the leading and trailing characters that are in chars
strip_chars(s, chars) ==
    Only({LET keep == {i \in 1..Len(v) : v[i] \notin chars}
          IN  IF keep = {} THEN <<>> ELSE SubSeq(v, SetMin(keep), SetMax(keep)) :
          v \in {s}})

\* s.strip()
strip(s) == strip_chars(s, Whitespace)

\* s.replace(c, "") for a set of single characters
remove_chars(s, chars) == SelectSeq(s, LAMBDA c : c \notin chars)

\* s.startswith(pat) at 0-based offset k
MatchAt(s, pat, k) ==
    /\ k + Len(pat) <= Len(s)
    /\ \A j \in 1..Len(pat) : s[k + j] = pat[j]

startswith(s, pat) == MatchAt(s, pat, 0)

\* pat in s
contains(s, pat) == \E v \in {s} : \E k \in 0..Len(v) : MatchAt(v, pat, k)

RECURSIVE remove_sub_from(_, _, _)
remove_sub_from(s, pat, k) ==
    IF k >= Len(s) THEN <<>>
    ELSE IF MatchAt(s, pat, k) THEN remove_sub_from(s, pat, k + Len(pat))
    ELSE <<s[k + 1]>> \o remove_sub_from(s, pat, k + 1)

\* s.replace(pat, ""): non-overlapping occurrences, left to right
remove_sub(s, pat) == Only({remove_sub_from(v, pat, 0) : v \in {s}})

\* " ".join(s.split()): whitespace runs collapse to one space, none at the ends
join_split(s) ==
    Only({LET kept == SelectSeq([i \in 1..Len(t) |-> i],
                                LAMBDA i : t[i] \notin Whitespace \/ t[i - 1] \notin Whitespace)
          IN  Only({[j \in 1..Len(k) |-> IF t[k[j]] \in Whitespace THEN " " ELSE t[k[j]]] :
                    k \in {kept}}) :
          t \in {strip(s)}})

(***************************************************************************)
(* core/base.py                                                            *)
(***************************************************************************)
base__only_digits(value) == SelectSeq(value, isdigit)

(***************************************************************************)
(* The class attributes BLACKLIST (CPF and CNPJ), PESO_PRIMEIRO,           *)
(* PESO_SEGUNDO and DDDS_VALIDOS are mutable objects shared by every call  *)
(* and every thread; the variable tables holds their current contents and  *)
(* the operations read them there.                                         *)
(***************************************************************************)
\* the contents the class bodies give them
InitialTables ==
    [cpf_blacklist  |-> {[i \in 1..11 |-> str(d)] : d \in 0..9},
     cnpj_blacklist |-> {[i \in 1..14 |-> str(d)] : d \in 0..9},
     peso_primeiro  |-> <<5, 4, 3, 2, 9, 8, 7, 6, 5, 4, 3, 2>>,
     peso_segundo   |-> <<6, 5, 4, 3, 2, 9, 8, 7, 6, 5, 4, 3, 2>>,
     ddds_validos   |->
        {<<"1", "1">>, <<"1", "2">>, <<"1", "3">>, <<"1", "4">>, <<"1", "5">>,
         <<"1", "6">>, <<"1", "7">>, <<"1", "8">>, <<"1", "9">>,
         <<"2", "1">>, <<"2", "2">>, <<"2", "4">>,
         <<"2", "7">>, <<"2", "8">>,
         <<"3", "1">>, <<"3", "2">>, <<"3", "3">>, <<"3", "4">>, <<"3", "5">>,
         <<"3", "7">>, <<"3", "8">>,
         <<"4", "1">>, <<"4", "2">>, <<"4", "3">>, <<"4", "4">>, <<"4", "5">>,
         <<"4", "6">>,
         <<"4", "7">>, <<"4", "8">>, <<"4", "9">>,
         <<"5", "1">>, <<"5", "3">>, <<"5", "4">>, <<"5", "5">>,
         <<"6", "1">>,
         <<"6", "2">>, <<"6", "4">>,
         <<"6", "3">>,
         <<"6", "5">>, <<"6", "6">>,
         <<"6", "7">>,
         <<"6", "8">>,
         <<"6", "9">>,
         <<"7", "1">>, <<"7", "3">>, <<"7", "4">>, <<"7", "5">>, <<"7", "7">>,
         <<"7", "9">>,
         <<"8", "1">>, <<"8", "7">>,
         <<"8", "2">>,
         <<"8", "3">>,
         <<"8", "4">>,
         <<"8", "5">>, <<"8", "8">>,
         <<"8", "6">>, <<"8", "9">>,
         <<"9", "1">>, <<"9", "3">>, <<"9", "4">>,
         <<"9", "2">>, <<"9", "7">>,
         <<"9", "5">>,
         <<"9", "6">>,
         <<"9", "8">>, <<"9", "9">>}]

(***************************************************************************)
(* validadores/cpf.py                                                      *)
(***************************************************************************)
CPF_BLACKLIST == tables.cpf_blacklist

cpf_clean(value) == base__only_digits(value)

RECURSIVE WeightedSum(_, _, _)
\* sum(int(s[i]) * w[i] for i in range(n)), 1-based here
WeightedSum(s, w, n) ==
    IF n = 0 THEN 0 ELSE int(s[n]) * w[n] + WeightedSum(s, w, n - 1)

\* the generator expression raises ValueError at the first character int()
\* rejects
AllInt(s, n) == \A i \in 1..n : int_ok(s[i])

\* check_digit_of with the digit 0 also given for the remainder 2
check_digit_of_below_3(total) ==
    LET remainder == total % 11
    IN  IF remainder < 3 THEN 0 ELSE 11 - remainder

check_digit_of(total) ==
    LET remainder == total % 11
    IN  IF remainder < 2 THEN 0 ELSE 11 - remainder

cpf__calculate_first_digit(cpf_base) ==
    IF ~AllInt(cpf_base, 9) THEN Raise("ValueError", "int")
    ELSE Return(check_digit_of(WeightedSum(cpf_base, [i \in 1..9 |-> 10 - (i - 1)], 9)))

cpf__calculate_second_digit(cpf_base) ==
    IF ~AllInt(cpf_base, 10) THEN Raise("ValueError", "int")
    ELSE Return(check_digit_of(WeightedSum(cpf_base, [i \in 1..10 |-> 11 - (i - 1)], 10)))

cpf__validate_check_digits(cpf) ==
    LET first_digit == cpf__calculate_first_digit(Slice(cpf, 0, 9))
    IN  IF ~Returned(first_digit) THEN first_digit
        ELSE IF ~int_ok(cpf[10]) THEN Raise("ValueError", "int")
        ELSE IF int(cpf[10]) # first_digit.val THEN Return(FALSE)
        ELSE LET second_digit == cpf__calculate_second_digit(Slice(cpf, 0, 10))
             IN  IF ~Returned(second_digit) THEN second_digit
                 ELSE IF ~int_ok(cpf[11]) THEN Raise("ValueError", "int")
                 ELSE Return(int(cpf[11]) = second_digit.val)

\* cpf_validate_try without the BLACKLIST test
cpf_validate_try_no_blacklist(value) ==
    LET cleaned == cpf_clean(value)
    IN  IF Len(cleaned) # 11 THEN Raise("InvalidCPF", "length")
        ELSE LET ok == cpf__validate_check_digits(cleaned)
             IN  IF ~Returned(ok) THEN ok
                 ELSE IF ~ok.val THEN Raise("InvalidCPF", "check_digits")
                 ELSE Return(TRUE)

\* the body of the try block of validate
cpf_validate_try(value) ==
    LET cleaned == cpf_clean(value)
    IN  IF Len(cleaned) # 11 THEN Raise("InvalidCPF", "length")
        ELSE IF cleaned \in CPF_BLACKLIST THEN Raise("InvalidCPF", "blacklist")
        ELSE LET ok == cpf__validate_check_digits(cleaned)
             IN  IF ~Returned(ok) THEN ok
                 ELSE IF ~ok.val THEN Raise("InvalidCPF", "check_digits")
                 ELSE Return(TRUE)

cpf_validate(value, raise_error) ==
    LET r == cpf_validate_try(value)
    IN  IF Raised(r, "InvalidCPF") /\ ~raise_error THEN Return(FALSE) ELSE r

cpf_format(value) ==
    LET cleaned == cpf_clean(value)
    IN  IF Len(cleaned) # 11 THEN Raise("InvalidCPF", "format_length")
        ELSE Return(Slice(cleaned, 0, 3) \o <<".">> \o Slice(cleaned, 3, 6)
                    \o <<".">> \o Slice(cleaned, 6, 9) \o <<"-">>
                    \o SliceFrom(cleaned, 9))

\* generate, given the nine digits random.randint draws
cpf_generate(base_digits, formatted) ==
    LET base_str     == join_digits(base_digits)
        first_digit  == cpf__calculate_first_digit(base_str).val
        base_str2    == base_str \o <<str(first_digit)>>
        second_digit == cpf__calculate_second_digit(base_str2).val
        cpf_complete == base_str2 \o <<str(second_digit)>>
    IN  IF formatted THEN cpf_format(cpf_complete) ELSE Return(cpf_complete)

cpf_get_check_digits(cpf_base) ==
    LET cleaned == cpf_clean(cpf_base)
    IN  IF Len(cleaned) < 9 THEN Raise("InvalidCPF", "base_length")
        ELSE LET base  == Slice(cleaned, 0, 9)
                 first == cpf__calculate_first_digit(base)
             IN  IF ~Returned(first) THEN first
                 ELSE LET second == cpf__calculate_second_digit(base \o <<str(first.val)>>)
                      IN  IF ~Returned(second) THEN second
                          ELSE Return(<<str(first.val), str(second.val)>>)

(***************************************************************************)
(* validators/cnpj.py                                                      *)
(***************************************************************************)
CNPJ_BLACKLIST == tables.cnpj_blacklist

PESO_PRIMEIRO == tables.peso_primeiro

PESO_SEGUNDO == tables.peso_segundo

cnpj_clean(value) == base__only_digits(value)

cnpj__calculate_first_digit(cnpj_base) ==
    IF ~AllInt(cnpj_base, 12) THEN Raise("ValueError", "int")
    ELSE Return(check_digit_of(WeightedSum(cnpj_base, PESO_PRIMEIRO, 12)))

cnpj__calculate_second_digit(cnpj_base) ==
    IF ~AllInt(cnpj_base, 13) THEN Raise("ValueError", "int")
    ELSE Return(check_digit_of(WeightedSum(cnpj_base, PESO_SEGUNDO, 13)))

cnpj__validate_check_digits(cnpj) ==
    LET first_digit == cnpj__calculate_first_digit(Slice(cnpj, 0, 12))
    IN  IF ~Returned(first_digit) THEN first_digit
        ELSE IF ~int_ok(cnpj[13]) THEN Raise("ValueError", "int")
        ELSE IF int(cnpj[13]) # first_digit.val THEN Return(FALSE)
        ELSE LET second_digit == cnpj__calculate_second_digit(Slice(cnpj, 0, 13))
             IN  IF ~Returned(second_digit) THEN second_digit
                 ELSE IF ~int_ok(cnpj[14]) THEN Raise("ValueError", "int")
                 ELSE Return(int(cnpj[14]) = second_digit.val)

\* cnpj_validate_try with the check digits tested before the BLACKLIST
cnpj_validate_try_digits_first(value) ==
    LET cleaned == cnpj_clean(value)
    IN  IF Len(cleaned) # 14 THEN Raise("InvalidCNPJ", "length")
        ELSE LET ok == cnpj__validate_check_digits(cleaned)
             IN  IF ~Returned(ok) THEN ok
                 ELSE IF ~ok.val THEN Raise("InvalidCNPJ", "check_digits")
                 ELSE IF cleaned \in CNPJ_BLACKLIST THEN Raise("InvalidCNPJ", "blacklist")
                 ELSE Return(TRUE)

\* the body of the try block of validate
cnpj_validate_try(value) ==
    LET cleaned == cnpj_clean(value)
    IN  IF Len(cleaned) # 14 THEN Raise("InvalidCNPJ", "length")
        ELSE IF cleaned \in CNPJ_BLACKLIST THEN Raise("InvalidCNPJ", "blacklist")
        ELSE LET ok == cnpj__validate_check_digits(cleaned)
             IN  IF ~Returned(ok) THEN ok
                 ELSE IF ~ok.val THEN Raise("InvalidCNPJ", "check_digits")
                 ELSE Return(TRUE)

cnpj_validate(value, raise_error) ==
    LET r == cnpj_validate_try(value)
    IN  IF Raised(r, "InvalidCNPJ") /\ ~raise_error THEN Return(FALSE) ELSE r

cnpj_format(value) ==
    LET cleaned == cnpj_clean(value)
    IN  IF Len(cleaned) # 14 THEN Raise("InvalidCNPJ", "format_length")
        ELSE Return(Slice(cleaned, 0, 2) \o <<".">> \o Slice(cleaned, 2, 5)
                    \o <<".">> \o Slice(cleaned, 5, 8) \o <<"/">>
                    \o Slice(cleaned, 8, 12) \o <<"-">> \o SliceFrom(cleaned, 12))

\* f"{filial:04d}" for 1 <= filial <= 9999
filial_04d(filial) ==
    <<str(filial \div 1000), str((filial \div 100) % 10),
      str((filial \div 10) % 10), str(filial % 10)>>

\* cnpj_generate with the filial range test off by one (0 accepted)
cnpj_generate_filial_from_0(base_digits, formatted, filial) ==
    IF ~(0 <= filial /\ filial <= 9999) THEN Raise("InvalidCNPJ", "filial_range")
    ELSE LET filial_str    == filial_04d(filial)
             cnpj_base     == join_digits(base_digits) \o filial_str
             first_digit   == cnpj__calculate_first_digit(cnpj_base).val
             cnpj_base2    == cnpj_base \o <<str(first_digit)>>
             second_digit  == cnpj__calculate_second_digit(cnpj_base2).val
             cnpj_complete == cnpj_base2 \o <<str(second_digit)>>
         IN  IF formatted THEN cnpj_format(cnpj_complete) ELSE Return(cnpj_complete)

\* generate, given the eight digits random.randint draws
cnpj_generate(base_digits, formatted, filial) ==
    IF ~(1 <= filial /\ filial <= 9999) THEN Raise("InvalidCNPJ", "filial_range")
    ELSE LET filial_str    == filial_04d(filial)
             cnpj_base     == join_digits(base_digits) \o filial_str
             first_digit   == cnpj__calculate_first_digit(cnpj_base).val
             cnpj_base2    == cnpj_base \o <<str(first_digit)>>
             second_digit  == cnpj__calculate_second_digit(cnpj_base2).val
             cnpj_complete == cnpj_base2 \o <<str(second_digit)>>
         IN  IF formatted THEN cnpj_format(cnpj_complete) ELSE Return(cnpj_complete)

cnpj_get_check_digits(cnpj_base) ==
    LET cleaned == cnpj_clean(cnpj_base)
    IN  IF Len(cleaned) < 12 THEN Raise("InvalidCNPJ", "base_length")
        ELSE LET base  == Slice(cleaned, 0, 12)
                 first == cnpj__calculate_first_digit(base)
             IN  IF ~Returned(first) THEN first
                 ELSE LET second == cnpj__calculate_second_digit(base \o <<str(first.val)>>)
                      IN  IF ~Returned(second) THEN second
                          ELSE Return(<<str(first.val), str(second.val)>>)

RECURSIVE int_str(_, _)
\* int(s) for a string of n characters on each of which int() succeeds
int_str(s, n) == IF n = 0 THEN 0 ELSE int_str(s, n - 1) * 10 + int(s[n])

cnpj_get_numero_filial(value) ==
    LET cleaned == cnpj_clean(value)
        valid   == cnpj_validate(cleaned, TRUE)
    IN  IF ~Returned(valid) THEN valid
        ELSE IF ~valid.val THEN Raise("InvalidCNPJ", "invalid")
        ELSE Return(int_str(Slice(cleaned, 8, 12), 4))

cnpj_is_matriz(value) ==
    LET cleaned == cnpj_clean(value)
        valid   == cnpj_validate(cleaned, TRUE)
    IN  IF ~Returned(valid) THEN valid
        ELSE IF ~valid.val THEN Raise("InvalidCNPJ", "invalid")
        ELSE Return(Slice(cleaned, 8, 12) = <<"0", "0", "0", "1">>)

cnpj_is_filial(value) ==
    LET r == cnpj_is_matriz(value)
    IN  IF Returned(r) THEN Return(~r.val) ELSE r

(***************************************************************************)
(* validadores/cep.py                                                      *)
(***************************************************************************)
cep_clean(value) == base__only_digits(value)

\* the body of the try block of validate
cep_validate_try(value) ==
    LET cleaned == cep_clean(value)
    IN  IF Len(cleaned) # 8 THEN Raise("InvalidCEP", "length")
        ELSE IF cleaned = <<"0", "0", "0", "0", "0", "0", "0", "0">>
             THEN Raise("InvalidCEP", "zeros")
        ELSE Return(TRUE)

cep_validate(value, raise_error) ==
    LET r == cep_validate_try(value)
    IN  IF Raised(r, "InvalidCEP") /\ ~raise_error THEN Return(FALSE) ELSE r

cep_format(value) ==
    LET cleaned == cep_clean(value)
    IN  IF Len(cleaned) # 8 THEN Raise("InvalidCEP", "format_length")
        ELSE Return(Slice(cleaned, 0, 5) \o <<"-">> \o SliceFrom(cleaned, 5))

(***************************************************************************)
(* validators/telefone.py                                                  *)
(***************************************************************************)
DDDS_VALIDOS == tables.ddds_validos

telefone_clean(value) == base__only_digits(value)

\* telefone_validate_try without the test of a landline's third digit
telefone_validate_try_no_fixo_test(value) ==
    LET cleaned == telefone_clean(value)
        ddd     == Slice(cleaned, 0, 2)
    IN  IF Len(cleaned) \notin {10, 11} THEN Raise("InvalidTelefone", "length")
        ELSE IF ddd \notin DDDS_VALIDOS THEN Raise("InvalidTelefone", "ddd")
        ELSE IF Len(cleaned) = 11 /\ cleaned[3] # "9"
             THEN Raise("InvalidTelefone", "celular_9")
        ELSE Return(TRUE)

\* the body of the try block of validate
telefone_validate_try(value) ==
    LET cleaned == telefone_clean(value)
        ddd     == Slice(cleaned, 0, 2)
    IN  IF Len(cleaned) \notin {10, 11} THEN Raise("InvalidTelefone", "length")
        ELSE IF ddd \notin DDDS_VALIDOS THEN Raise("InvalidTelefone", "ddd")
        ELSE IF Len(cleaned) = 11 /\ cleaned[3] # "9"
             THEN Raise("InvalidTelefone", "celular_9")
        ELSE IF Len(cleaned) = 10 /\ cleaned[3] = "9"
             THEN Raise("InvalidTelefone", "fixo_9")
        ELSE Return(TRUE)

telefone_validate(value, raise_error) ==
    LET r == telefone_validate_try(value)
    IN  IF Raised(r, "InvalidTelefone") /\ ~raise_error THEN Return(FALSE) ELSE r

\* telefone_format with the slice after the hyphen starting one digit late
telefone_format_skips_digit(value) ==
    LET cleaned == telefone_clean(value)
        ddd     == Slice(cleaned, 0, 2)
        numero  == SliceFrom(cleaned, 2)
    IN  IF Len(cleaned) \notin {10, 11} THEN Raise("InvalidTelefone", "format_length")
        ELSE IF Len(cleaned) = 11
             THEN Return(<<"(">> \o ddd \o <<")", " ">> \o Slice(numero, 0, 5)
                         \o <<"-">> \o SliceFrom(numero, 6))
        ELSE Return(<<"(">> \o ddd \o <<")", " ">> \o Slice(numero, 0, 4)
                    \o <<"-">> \o SliceFrom(numero, 5))

telefone_format(value) ==
    LET cleaned == telefone_clean(value)
        ddd     == Slice(cleaned, 0, 2)
        numero  == SliceFrom(cleaned, 2)
    IN  IF Len(cleaned) \notin {10, 11} THEN Raise("InvalidTelefone", "format_length")
        ELSE IF Len(cleaned) = 11
             THEN Return(<<"(">> \o ddd \o <<")", " ">> \o Slice(numero, 0, 5)
                         \o <<"-">> \o SliceFrom(numero, 5))
        ELSE Return(<<"(">> \o ddd \o <<")", " ">> \o Slice(numero, 0, 4)
                    \o <<"-">> \o SliceFrom(numero, 4))

\* telefone_generate with the first digit of a landline drawn from 2..9
telefone_generate_fixo_any_first(tipo, ddd, formatted, primeiro, digits) ==
    IF ddd \notin DDDS_VALIDOS THEN Raise("InvalidTelefone", "generate_ddd")
    ELSE IF tipo \notin {"fixo", "celular"} THEN Raise("InvalidTelefone", "generate_tipo")
    ELSE LET primeiro_digito   == IF tipo = "celular" THEN "9" ELSE str(primeiro + 4)
             qtd_digitos       == IF tipo = "celular" THEN 8 ELSE 7
             numero            == <<primeiro_digito>> \o join_digits(SubSeq(digits, 1, qtd_digitos))
             telefone_completo == ddd \o numero
         IN  IF formatted THEN telefone_format(telefone_completo)
             ELSE Return(telefone_completo)

\* generate, given the draw of random.randint(2, 5) and the draws of
\* random.randint(0, 9)
telefone_generate(tipo, ddd, formatted, primeiro, digits) ==
    IF ddd \notin DDDS_VALIDOS THEN Raise("InvalidTelefone", "generate_ddd")
    ELSE IF tipo \notin {"fixo", "celular"} THEN Raise("InvalidTelefone", "generate_tipo")
    ELSE LET primeiro_digito   == IF tipo = "celular" THEN "9" ELSE str(primeiro)
             qtd_digitos       == IF tipo = "celular" THEN 8 ELSE 7
             numero            == <<primeiro_digito>> \o join_digits(SubSeq(digits, 1, qtd_digitos))
             telefone_completo == ddd \o numero
         IN  IF formatted THEN telefone_format(telefone_completo)
             ELSE Return(telefone_completo)

telefone_get_tipo(value) ==
    LET cleaned == telefone_clean(value)
        valid   == telefone_validate(cleaned, TRUE)
    IN  IF ~Returned(valid) THEN valid
        ELSE IF ~valid.val THEN Raise("InvalidTelefone", "invalid")
        ELSE Return(IF Len(cleaned) = 11 THEN "celular" ELSE "fixo")

telefone_get_ddd(value) ==
    LET cleaned == telefone_clean(value)
        valid   == telefone_validate(cleaned, TRUE)
    IN  IF ~Returned(valid) THEN valid
        ELSE IF ~valid.val THEN Raise("InvalidTelefone", "invalid")
        ELSE Return(Slice(cleaned, 0, 2))

(***************************************************************************)
(* validadores/placa.py                                                    *)
(***************************************************************************)
placa_clean(value) ==
    LET v1 == upper(strip(value))
        v2 == remove_chars(remove_chars(v1, {"-"}), {" "})
    IN  SelectSeq(v2, isalnum)

\* the string a pattern ending in $ is matched against: $ also matches
\* before one final newline
BeforeFinalNewline(v) ==
    IF Len(v) > 0 /\ v[Len(v)] = "NL" THEN SubSeq(v, 1, Len(v) - 1) ELSE v

\* PLACA_ANTIGA_REGEX.match(v): ^[A-Z]{3}-?\d{4}$
PLACA_ANTIGA_REGEX_match(v) ==
    LET w    == BeforeFinalNewline(v)
        body == IF Len(w) >= 4 /\ w[4] = "-" THEN SubSeq(w, 1, 3) \o SubSeq(w, 5, Len(w)) ELSE w
    IN  /\ Len(body) = 7
        /\ \A k \in 1..3 : body[k] \in UpperSet
        /\ \A k \in 4..7 : re_digit(body[k])

\* PLACA_MERCOSUL_REGEX.match(v): ^[A-Z]{3}\d[A-Z]\d{2}$
PLACA_MERCOSUL_REGEX_match(v) ==
    LET w == BeforeFinalNewline(v)
    IN  /\ Len(w) = 7
        /\ \A k \in 1..3 : w[k] \in UpperSet
        /\ re_digit(w[4])
        /\ w[5] \in UpperSet
        /\ \A k \in 6..7 : re_digit(w[k])

placa__is_valid_format(cleaned) ==
    PLACA_ANTIGA_REGEX_match(cleaned) \/ PLACA_MERCOSUL_REGEX_match(cleaned)

\* the body of the try block of validate
placa_validate_try(value) ==
    LET value_stripped == upper(strip(value))
        cleaned        == upper(placa_clean(value))
    IN  IF \E k \in 1..Len(value_stripped) :
               ~(isalnum(value_stripped[k]) \/ value_stripped[k] = "-")
        THEN Raise("InvalidPlaca", "caracteres")
        ELSE IF Len(cleaned) < 7 \/ Len(cleaned) > 8 THEN Raise("InvalidPlaca", "length")
        ELSE IF ~placa__is_valid_format(cleaned) THEN Raise("InvalidPlaca", "formato")
        ELSE Return(TRUE)

placa_validate(value, raise_error) ==
    LET r == placa_validate_try(value)
    IN  IF Raised(r, "InvalidPlaca") /\ ~raise_error THEN Return(FALSE) ELSE r

placa_get_tipo(value) ==
    LET cleaned == upper(placa_clean(value))
        valid   == placa_validate(cleaned, TRUE)
    IN  IF ~Returned(valid) THEN valid
        ELSE IF ~valid.val THEN Raise("InvalidPlaca", "invalid")
        ELSE IF PLACA_MERCOSUL_REGEX_match(cleaned) THEN Return("mercosul")
        ELSE Return("antiga")

placa_is_antiga(value) ==
    LET tipo == placa_get_tipo(value)
    IN  IF ~Returned(tipo) THEN tipo ELSE Return(tipo.val = "antiga")

placa_is_mercosul(value) ==
    LET tipo == placa_get_tipo(value)
    IN  IF ~Returned(tipo) THEN tipo ELSE Return(tipo.val = "mercosul")

placa_format(value) ==
    LET cleaned == upper(placa_clean(value))
        valid   == placa_validate(cleaned, TRUE)
        tipo    == placa_get_tipo(cleaned)
    IN  IF ~Returned(valid) THEN valid
        ELSE IF ~valid.val THEN Raise("InvalidPlaca", "invalid")
        ELSE IF ~Returned(tipo) THEN tipo
        ELSE IF tipo.val = "antiga"
             THEN Return(Slice(cleaned, 0, 3) \o <<"-">> \o SliceFrom(cleaned, 3))
        ELSE Return(cleaned)

\* "".join(random.choices("ABCDEFGHIJKLMNOPQRSTUVWXYZ", k)) for the drawn
\* positions
join_letras(posicoes) == [i \in 1..Len(posicoes) |-> Uppercase[posicoes[i] + 1]]

\* placa_generate with the second letter of a Mercosul plate put last
placa_generate_letra_last(tipo, formatted, letras, numeros) ==
    LET letras1 == join_letras(SubSeq(letras, 1, 3))
    IN  IF tipo \notin {"antiga", "mercosul"} THEN Raise("InvalidPlaca", "tipo")
        ELSE LET placa_gerada ==
                     IF tipo = "antiga"
                     THEN letras1 \o join_digits(SubSeq(numeros, 1, 4))
                     ELSE letras1 \o <<str(numeros[1])>>
                          \o join_digits(SubSeq(numeros, 2, 3))
                          \o join_letras(SubSeq(letras, 4, 4))
             IN  IF formatted THEN placa_format(placa_gerada) ELSE Return(placa_gerada)

\* letras and numeros are the draws of random.choices and random.choice, in
\* the order the code makes them, as positions in the letter and digit
\* alphabets
placa_generate(tipo, formatted, letras, numeros) ==
    LET letras1 == join_letras(SubSeq(letras, 1, 3))
    IN  IF tipo \notin {"antiga", "mercosul"} THEN Raise("InvalidPlaca", "tipo")
        ELSE LET placa_gerada ==
                     IF tipo = "antiga"
                     THEN letras1 \o join_digits(SubSeq(numeros, 1, 4))
                     ELSE letras1 \o <<str(numeros[1])>>
                          \o join_letras(SubSeq(letras, 4, 4))
                          \o join_digits(SubSeq(numeros, 2, 3))
             IN  IF formatted THEN placa_format(placa_gerada) ELSE Return(placa_gerada)

placa_validate_antiga(value, raise_error) ==
    LET cleaned == upper(placa_clean(value))
    IN  IF PLACA_ANTIGA_REGEX_match(cleaned) THEN Return(TRUE)
        ELSE IF raise_error THEN Raise("InvalidPlaca", "formato_antiga")
        ELSE Return(FALSE)

placa_validate_mercosul(value, raise_error) ==
    LET cleaned == upper(placa_clean(value))
    IN  IF PLACA_MERCOSUL_REGEX_match(cleaned) THEN Return(TRUE)
        ELSE IF raise_error THEN Raise("InvalidPlaca", "formato_mercosul")
        ELSE Return(FALSE)

\* chr(65 + n): the letter n places after "A", and the characters that
\* follow "Z" in code-point order
chr65(n) == IF n < 26 THEN Uppercase[n + 1] ELSE "after_Z"

placa_converter_para_mercosul(placa_antiga) ==
    LET cleaned == placa_clean(placa_antiga)
        letras  == Slice(cleaned, 0, 3)
        numeros == SliceFrom(cleaned, 3)
    IN  IF ~placa_validate_antiga(placa_antiga, FALSE).val
        THEN Raise("InvalidPlaca", "not_antiga")
        ELSE LET c              == chr65(int(numeros[2]))
                 letra_mercosul == IF c = "after_Z" THEN "A" ELSE c
             IN  Return(letras \o <<numeros[1], letra_mercosul>> \o SliceFrom(numeros, 2))

(***************************************************************************)
(* validadores/pix.py                                                      *)
(***************************************************************************)
\* characters of [a-zA-Z0-9._%+-] and of [a-zA-Z0-9.-]
EmailLocalChars == Letters \cup AsciiDigitSet \cup {".", "_", "%", "+", "-"}

EmailDomainChars == Letters \cup AsciiDigitSet \cup {".", "-"}

\* EMAIL_REGEX.match(v): ^[a-zA-Z0-9._%+-]+@[a-zA-Z0-9.-]+\.[a-zA-Z]{2,}$
\* neither class holds "@", so the "@" is the only one; the tld holds no
\* ".", so the "." before it is the last one
EMAIL_REGEX_match(v) ==
    LET ats == {k \in 1..Len(v) : v[k] = "@"}
    IN  /\ Cardinality(ats) = 1
        /\ LET at   == CHOOSE k \in ats : TRUE
               dots == {k \in (at + 1)..Len(v) : v[k] = "."}
           IN  /\ at > 1
               /\ \A k \in 1..(at - 1) : v[k] \in EmailLocalChars
               /\ dots # {}
               /\ LET dot == SetMax(dots)
                  IN  /\ dot > at + 1
                      /\ \A k \in (at + 1)..(dot - 1) : v[k] \in EmailDomainChars
                      /\ Len(v) - dot >= 2
                      /\ \A k \in (dot + 1)..Len(v) : v[k] \in Letters

\* TELEFONE_REGEX.match(v): ^\+55\d{2}9?\d{8}$
TELEFONE_REGEX_match(v) ==
    /\ startswith(v, <<"+", "5", "5">>)
    /\ \A k \in 4..Len(v) : re_digit(v[k])
    /\ \/ Len(v) = 13
       \/ Len(v) = 14 /\ v[6] = "9"

pix_sanitizar(value) ==
    LET v1 == strip(value)
        v2 == remove_chars(remove_chars(remove_chars(v1, {"NL"}), {"CR"}), {"TAB"})
        v3 == join_split(v2)
    IN  remove_chars(remove_chars(v3, {"ZWSP"}), {"BOM"})

\* except Exception: every error of the CPF validator becomes False / InvalidPIX
pix_validate_cpf(value, raise_error) ==
    Only({LET r == cpf_validate(v, FALSE)
          IN  IF ReturnedVal(r, TRUE) THEN Return(TRUE)
              ELSE IF raise_error THEN Raise("InvalidPIX", "cpf") ELSE Return(FALSE) :
          v \in {pix_sanitizar(value)}})

pix_validate_cnpj(value, raise_error) ==
    Only({LET r == cnpj_validate(v, FALSE)
          IN  IF ReturnedVal(r, TRUE) THEN Return(TRUE)
              ELSE IF raise_error THEN Raise("InvalidPIX", "cnpj") ELSE Return(FALSE) :
          v \in {pix_sanitizar(value)}})

\* the body of the try block of validate_email
pix_validate_email_try(value) ==
    Only({LET ats        == {k \in 1..Len(v) : v[k] = "@"}
              local_part == IF ats = {} THEN v ELSE SubSeq(v, 1, SetMin(ats) - 1)
          IN  IF Len(v) < 5 THEN Raise("InvalidPIX", "email_min")
              ELSE IF Len(v) > 77 THEN Raise("InvalidPIX", "email_max")
              ELSE IF contains(v, <<" ">>) THEN Raise("InvalidPIX", "email_space")
              ELSE IF ~EMAIL_REGEX_match(v) THEN Raise("InvalidPIX", "email_format")
              ELSE IF contains(v, <<".", ".">>) THEN Raise("InvalidPIX", "email_dots")
              ELSE IF local_part[1] = "." \/ local_part[Len(local_part)] = "."
                   THEN Raise("InvalidPIX", "email_local_dot")
              ELSE Return(TRUE) :
          v \in {pix_sanitizar(value)}})

pix_validate_email(value, raise_error) ==
    LET r == pix_validate_email_try(value)
    IN  IF Raised(r, "InvalidPIX") /\ ~raise_error THEN Return(FALSE) ELSE r

\* the body of the try block of validate_telefone
pix_validate_telefone_try(value) ==
    Only({LET ddd                 == Slice(v, 3, 5)
              numero              == SliceFrom(v, 5)
              telefone_sem_codigo == ddd \o numero
          IN  IF ~startswith(v, <<"+", "5", "5">>) THEN Raise("InvalidPIX", "telefone_prefix")
              ELSE IF ~TELEFONE_REGEX_match(v) THEN Raise("InvalidPIX", "telefone_format")
              ELSE IF ~telefone_validate(telefone_sem_codigo, FALSE).val
                   THEN Raise("InvalidPIX", "telefone_invalid")
              ELSE Return(TRUE) :
          v \in {pix_sanitizar(value)}})

pix_validate_telefone(value, raise_error) ==
    LET r == pix_validate_telefone_try(value)
    IN  IF Raised(r, "InvalidPIX") /\ ~raise_error THEN Return(FALSE) ELSE r

\* the hexadecimal digits int(_, 16) accepts, with their lower-case form
HexChars == AsciiDigitSet \cup {"a", "b", "c", "d", "e", "f", "A", "B", "C", "D", "E", "F", "AR3"}

hex_lower(c) == IF c = "AR3" THEN "3" ELSE lower_char(c)

\* int(h, 16) parses: optional whitespace around, an optional sign, an
\* optional 0x prefix, then hex digits with single underscores between
\* them.  The digits of h when it parses, <<"invalid">> otherwise.
hex_digits_of(h) ==
    Only({IF /\ Len(t3) > 0
             /\ t3[1] # "_"
             /\ t3[Len(t3)] # "_"
             /\ ~contains(t3, <<"_", "_">>)
             /\ \A k \in 1..Len(t3) : t3[k] \in HexChars \cup {"_"}
          THEN remove_chars(t3, {"_"})
          ELSE <<"invalid">> :
          t3 \in {IF Len(t2) > 1 /\ t2[1] = "0" /\ t2[2] \in {"x", "X"}
                  THEN (IF Len(t2) > 2 /\ t2[3] = "_" THEN SliceFrom(t2, 3) ELSE SliceFrom(t2, 2))
                  ELSE t2 :
          t2 \in {IF Len(t1) > 0 /\ t1[1] \in {"+", "-"} THEN SliceFrom(t1, 1) ELSE t1 :
          t1 \in {strip(h)}}}})

\* uuid.UUID(value): the 32 lower-case hex digits of the UUID, or ValueError
uuid_UUID(value) ==
    Only({IF Len(h2) # 32 THEN Raise("ValueError", "uuid_length")
          ELSE Only({IF ds = <<"invalid">> THEN Raise("ValueError", "uuid_hex")
                     ELSE Return([k \in 1..32 |->
                                     IF k <= 32 - Len(ds) THEN "0"
                                     ELSE hex_lower(ds[k - (32 - Len(ds))])]) :
                     ds \in {hex_digits_of(h2)}}) :
          h2 \in {remove_chars(strip_chars(h1, {"{", "}"}), {"-"}) :
          h1 \in {remove_sub(remove_sub(value, <<"u", "r", "n", ":">>),
                             <<"u", "u", "i", "d", ":">>)}}})

\* str(u) for the 32 hex digits of a UUID
uuid_str(hex) ==
    Only({Slice(h, 0, 8) \o <<"-">> \o Slice(h, 8, 12) \o <<"-">> \o Slice(h, 12, 16)
          \o <<"-">> \o Slice(h, 16, 20) \o <<"-">> \o SliceFrom(h, 20) : h \in {hex}})

\* uuid.UUID(value, version=4) sets the version bits itself, so the version
\* test that follows it never fails
pix_validate_aleatoria(value, raise_error) ==
    LET v == pix_sanitizar(value)
    IN  IF Returned(uuid_UUID(v)) THEN Return(TRUE)
        ELSE IF raise_error THEN Raise("InvalidPIX", "aleatoria") ELSE Return(FALSE)

\* pix_detectar_tipo with the email test moved before the CPF test
pix_detectar_tipo_email_first(value) ==
    Only({IF pix_validate_email(v, FALSE).val THEN "email"
          ELSE IF pix_validate_cpf(v, FALSE).val THEN "cpf"
          ELSE IF pix_validate_cnpj(v, FALSE).val THEN "cnpj"
          ELSE IF pix_validate_telefone(v, FALSE).val THEN "telefone"
          ELSE IF pix_validate_aleatoria(v, FALSE).val THEN "aleatoria"
          ELSE "None" :
          v \in {pix_sanitizar(value)}})

pix_detectar_tipo(value) ==
    Only({IF pix_validate_cpf(v, FALSE).val THEN "cpf"
          ELSE IF pix_validate_cnpj(v, FALSE).val THEN "cnpj"
          ELSE IF pix_validate_email(v, FALSE).val THEN "email"
          ELSE IF pix_validate_telefone(v, FALSE).val THEN "telefone"
          ELSE IF pix_validate_aleatoria(v, FALSE).val THEN "aleatoria"
          ELSE "None" :
          v \in {pix_sanitizar(value)}})

\* the body of the try block of validate
pix_validate_try(value) ==
    IF pix_detectar_tipo(pix_sanitizar(value)) = "None"
    THEN Raise("InvalidPIX", "invalid_key")
    ELSE Return(TRUE)

pix_validate(value, raise_error) ==
    LET r == pix_validate_try(value)
    IN  IF Raised(r, "InvalidPIX") /\ ~raise_error THEN Return(FALSE) ELSE r

pix_clean(value) ==
    Only({Only({IF tipo = "cpf" THEN Return(cpf_clean(v))
                ELSE IF tipo = "cnpj" THEN Return(cnpj_clean(v))
                ELSE IF tipo = "telefone"
                     THEN Return(remove_chars(remove_chars(v, {"+"}), {" "}))
                ELSE IF tipo = "email" THEN Return(lower(v))
                ELSE IF tipo = "aleatoria"
                     THEN Only({IF Returned(u) THEN Return(lower(uuid_str(u.val))) ELSE u :
                                u \in {uuid_UUID(v)}})
                ELSE Return(base__only_digits(v)) :
                tipo \in {pix_detectar_tipo(v)}}) :
          v \in {pix_sanitizar(value)}})

pix_format(value) ==
    Only({Only({IF tipo = "None" THEN Raise("InvalidPIX", "invalid_key")
                ELSE IF tipo = "cpf" THEN cpf_format(v)
                ELSE IF tipo = "cnpj" THEN cnpj_format(v)
                ELSE IF tipo = "telefone" THEN Return(v)
                ELSE IF tipo = "email" THEN Return(lower(v))
                ELSE Only({IF Returned(u) THEN Return(lower(uuid_str(u.val))) ELSE u :
                           u \in {uuid_UUID(v)}}) :
                tipo \in {pix_detectar_tipo(v)}}) :
          v \in {pix_sanitizar(value)}})

pix_telefone_para_pix(telefone) ==
    Only({IF startswith(t, <<"+", "5", "5">>) THEN Return(t)
          ELSE IF ~telefone_validate(t, FALSE).val THEN Raise("InvalidPIX", "telefone_invalid")
          ELSE Return(<<"+", "5", "5">> \o telefone_clean(t)) :
          t \in {pix_sanitizar(telefone)}})

pix_normalizar(value) ==
    Only({IF telefone_validate(v, FALSE).val /\ ~startswith(v, <<"+", "5", "5">>)
          THEN pix_telefone_para_pix(v)
          ELSE Only({IF tipo = "email" THEN Return(strip(lower(v)))
                     ELSE IF tipo = "aleatoria"
                          THEN Only({IF Returned(u) THEN Return(lower(uuid_str(u.val))) ELSE u :
                                     u \in {uuid_UUID(v)}})
                     ELSE Return(v) :
                     tipo \in {pix_detectar_tipo(v)}}) :
          v \in {pix_sanitizar(value)}})

\* s[-n:]
LastChars(s, n) ==
    Only({IF n = 0 THEN v
          ELSE IF n > 0 THEN SubSeq(v, (IF n >= Len(v) THEN 0 ELSE Len(v) - n) + 1, Len(v))
          ELSE SliceFrom(v, -n) :
          v \in {s}})

\* the email branch of mascarar
pix_mascarar_email(v) ==
    LET ats == {k \in 1..Len(v) : v[k] = "@"}
    IN  IF Cardinality(ats) # 1 THEN Return(v)
        ELSE LET at          == SetMin(ats)
                 username    == SubSeq(v, 1, at - 1)
                 domain      == SliceFrom(v, at)
                 masked_user == IF Len(username) > 4
                                THEN Slice(username, 0, 4) \o <<"*", "*", "*">>
                                ELSE <<"*", "*", "*">>
             IN  Return(masked_user \o <<"@">> \o domain)

pix_mascarar(value, mostrar_final) ==
    Only({Only({IF tipo = "None" THEN Raise("InvalidPIX", "invalid_key")
                ELSE IF tipo = "cpf"
                     THEN Only({IF ~Returned(formatted) THEN formatted
                                ELSE Return(<<"*", "*", "*", ".", "*", "*", "*", ".", "*">>
                                            \o LastChars(formatted.val, 5)) :
                                formatted \in {cpf_format(v)}})
                ELSE IF tipo = "cnpj"
                     THEN Only({IF ~Returned(formatted) THEN formatted
                                ELSE Return(<<"*", "*", ".", "*", "*", "*", ".", "*", "*", "*",
                                              "/", "*", "*", "*", "*", "-">>
                                            \o LastChars(formatted.val, 2)) :
                                formatted \in {cnpj_format(v)}})
                ELSE IF tipo = "email" THEN pix_mascarar_email(v)
                ELSE IF tipo = "telefone"
                     THEN Return(Slice(v, 0, 6) \o <<"*", "*", "*", "*">>
                                 \o LastChars(v, mostrar_final))
                ELSE Return(Slice(v, 0, 8)
                            \o <<"*", "*", "*", "*", "-", "*", "*", "*", "*", "-",
                                 "*", "*", "*", "*", "-">>
                            \o LastChars(v, 12)) :
                tipo \in {pix_detectar_tipo(v)}}) :
          v \in {pix_sanitizar(value)}})

\* the two assignments of sao_iguais to one key: sanitize, then convert a
\* national telephone number to the PIX form
pix_sao_iguais_chave(chave) ==
    Only({IF telefone_validate(c, FALSE).val /\ ~startswith(c, <<"+", "5", "5">>)
          THEN pix_telefone_para_pix(c)
          ELSE Return(c) :
          c \in {pix_sanitizar(chave)}})

\* pix_sao_iguais_try without the test that a type was detected
pix_sao_iguais_try_no_none_test(chave1, chave2) ==
    Only({IF ~Returned(k[1]) THEN k[1]
          ELSE IF ~Returned(k[2]) THEN k[2]
          ELSE IF pix_detectar_tipo(k[1].val) # pix_detectar_tipo(k[2].val) THEN Return(FALSE)
          ELSE Only({IF ~Returned(cleaned[1]) THEN cleaned[1]
                     ELSE IF ~Returned(cleaned[2]) THEN cleaned[2]
                     ELSE Return(cleaned[1].val = cleaned[2].val) :
                     cleaned \in {<<pix_clean(k[1].val), pix_clean(k[2].val)>>}}) :
          k \in {<<pix_sao_iguais_chave(chave1), pix_sao_iguais_chave(chave2)>>}})

\* the body of the try block of sao_iguais
pix_sao_iguais_try(chave1, chave2) ==
    Only({IF ~Returned(k[1]) THEN k[1]
          ELSE IF ~Returned(k[2]) THEN k[2]
          ELSE Only({IF tipo[1] # tipo[2] THEN Return(FALSE)
                     ELSE IF tipo[1] = "None" \/ tipo[2] = "None" THEN Return(FALSE)
                     ELSE Only({IF ~Returned(cleaned[1]) THEN cleaned[1]
                                ELSE IF ~Returned(cleaned[2]) THEN cleaned[2]
                                ELSE Return(cleaned[1].val = cleaned[2].val) :
                                cleaned \in {<<pix_clean(k[1].val), pix_clean(k[2].val)>>}}) :
                     tipo \in {<<pix_detectar_tipo(k[1].val), pix_detectar_tipo(k[2].val)>>}}) :
          k \in {<<pix_sao_iguais_chave(chave1), pix_sao_iguais_chave(chave2)>>}})

\* except Exception: return False
pix_sao_iguais(chave1, chave2) ==
    LET r == pix_sao_iguais_try(chave1, chave2)
    IN  IF Returned(r) THEN r ELSE Return(FALSE)

\* the sixteen hexadecimal digits as str(uuid) writes them
HexDigits == <<"0", "1", "2", "3", "4", "5", "6", "7", "8", "9", "a", "b", "c", "d", "e", "f">>

hex_value(c) == (CHOOSE i \in 1..16 : HexDigits[i] = c) - 1

\* uuid.uuid4() over 32 random hex digits: the version digit becomes 4 and
\* the variant digit keeps its two low bits under the bits 10
uuid_uuid4(random) ==
    [k \in 1..32 |-> IF k = 13 THEN "4"
                     ELSE IF k = 17 THEN HexDigits[8 + (hex_value(random[k]) % 4) + 1]
                     ELSE random[k]]

\* gerar_aleatoria: str(uuid.uuid4())
pix_gerar_aleatoria(random) == Return(uuid_str(uuid_uuid4(random)))

(***************************************************************************)
(* Lookups: core/http.py, validators/cep.py, consultas/cep.py,             *)
(* consultas/cnpj.py.  A response is what the remote API answers: whether  *)
(* an answer arrived at all, its status code and the kind of its body.     *)
(***************************************************************************)
\* httpx.get, raise_for_status and json: the decoded body, or the error
httpx_get_json(response) ==
    IF ~response.arrived THEN Raise("httpx.RequestError", "no_response")
    ELSE IF response.status >= 400 THEN Raise("httpx.HTTPStatusError", response.status)
    ELSE IF response.body = "not_json" THEN Raise("ValueError", "json")
    ELSE Return(response.body)

\* HTTPClient.get and get_async
http_client_get(response) == httpx_get_json(response)

\* CEPValidator.consultar up to its request: clean, validate, request ViaCEP
cep_consultar_begin(value) ==
    LET cleaned == cep_clean(value)
        valid   == cep_validate(cleaned, TRUE)
    IN  IF ~Returned(valid) THEN valid
        ELSE IF ~valid.val THEN Raise("InvalidCEP", "invalido")
        ELSE Request("viacep")

\* cep_consultar_response with the fallback also tried after a body that is
\* not JSON
cep_consultar_response_any_error(response, use_fallback) ==
    LET r == httpx_get_json(response)
    IN  IF ~Returned(r)
        THEN (IF use_fallback THEN Request("brasilapi") ELSE Raise("CEPAPIError", "http"))
        ELSE IF r.val = "list" THEN Raise("AttributeError", "get")
        ELSE IF r.val = "erro" THEN Raise("CEPNotFound", "viacep")
        ELSE Return(<<"viacep", r.val>>)

\* CEPValidator.consultar from the answer of ViaCEP on
cep_consultar_response(response, use_fallback) ==
    LET r == httpx_get_json(response)
    IN  IF Raised(r, "httpx.HTTPStatusError")
        THEN (IF use_fallback THEN Request("brasilapi") ELSE Raise("CEPAPIError", "http"))
        ELSE IF Raised(r, "httpx.RequestError")
        THEN (IF use_fallback THEN Request("brasilapi") ELSE Raise("CEPAPIError", "conexao"))
        ELSE IF Raised(r, "ValueError") THEN Raise("CEPAPIError", "processar")
        ELSE IF r.val = "list" THEN Raise("AttributeError", "get")
        ELSE IF r.val = "erro" THEN Raise("CEPNotFound", "viacep")
        ELSE Return(<<"viacep", r.val>>)

\* CEPValidator._consultar_fallback from the answer of BrasilAPI on
cep__consultar_fallback(response) ==
    LET r == httpx_get_json(response)
    IN  IF Raised(r, "httpx.HTTPStatusError")
        THEN (IF r.msg = 404 THEN Raise("CEPNotFound", "brasilapi")
              ELSE Raise("CEPAPIError", "http_alternativa"))
        ELSE IF Raised(r, "httpx.RequestError") THEN Raise("CEPAPIError", "conexao_alternativa")
        ELSE IF Raised(r, "ValueError") THEN Raise("CEPAPIError", "processar_alternativa")
        ELSE IF r.val = "list" THEN Raise("AttributeError", "get")
        ELSE Return(<<"brasilapi", r.val>>)

\* CEPConsulta.consultar up to its request
consultas_cep_consultar_begin(value) ==
    LET cleaned == cep_clean(value)
        valid   == cep_validate(cleaned, TRUE)
    IN  IF ~Returned(valid) THEN valid
        ELSE IF ~valid.val THEN Raise("InvalidCEP", "invalido")
        ELSE Request("viacep")

\* CEPConsulta.consultar from the answer of ViaCEP on: every exception but
\* CEPNotFound goes to the fallback when use_fallback is set
consultas_cep_consultar_response(response, use_fallback) ==
    LET r == http_client_get(response)
        e == IF ~Returned(r) THEN r
             ELSE IF r.val = "list" THEN Raise("AttributeError", "get")
             ELSE IF r.val = "erro" THEN Raise("CEPNotFound", "viacep")
             ELSE Return(<<"viacep", r.val>>)
    IN  IF Returned(e) THEN e
        ELSE IF use_fallback /\ ~Raised(e, "CEPNotFound") THEN Request("brasilapi")
        ELSE IF Raised(e, "CEPNotFound") \/ Raised(e, "InvalidCEP") THEN e
        ELSE Raise("CEPAPIError", "consultar")

\* CEPConsulta._consultar_fallback from the answer of BrasilAPI on
consultas_cep__consultar_fallback(response) ==
    LET r == http_client_get(response)
    IN  IF ~Returned(r) THEN Raise("CEPAPIError", "alternativa")
        ELSE IF r.val = "list" THEN Raise("CEPAPIError", "alternativa")
        ELSE Return(<<"brasilapi", r.val>>)

\* CNPJConsulta.consultar up to its request
consultas_cnpj_consultar_begin(value, use_receitaws) ==
    LET cleaned == cnpj_clean(value)
        valid   == cnpj_validate(cleaned, TRUE)
    IN  IF ~Returned(valid) THEN valid
        ELSE IF ~valid.val THEN Raise("InvalidCNPJ", "invalido")
        ELSE IF use_receitaws THEN Request("receitaws")
        ELSE Request("brasilapi_cnpj")

\* _consultar_brasilapi and _consultar_receitaws from the answer on: no
\* exception is caught
consultas_cnpj_consultar_response(response) ==
    LET r == http_client_get(response)
    IN  IF ~Returned(r) THEN r
        ELSE IF r.val = "list" THEN Raise("AttributeError", "get")
        ELSE Return(<<"empresa", r.val>>)

(***************************************************************************)
(* Concurrent calls.  The validators are module-level singletons and the   *)
(* tables are class attributes, so threads that call them share both.      *)
(***************************************************************************)
Threads == 1..NumThreads

\* a thread that is inside no call
IdleThread ==
    [pc |-> "idle", call |-> [name |-> "none", value |-> <<>>], result |-> Return(<<>>),
     overlapped |-> FALSE]

\* what the operation named by a call returns for its value
CallResult(call) ==
    CASE call.name = "cpf.validate" -> cpf_validate(call.value, FALSE)
      [] call.name = "cpf.format" -> cpf_format(call.value)
      [] call.name = "cpf.clean" -> Return(cpf_clean(call.value))
      [] call.name = "cnpj.validate" -> cnpj_validate(call.value, FALSE)
      [] call.name = "cnpj.format" -> cnpj_format(call.value)
      [] call.name = "cnpj.clean" -> Return(cnpj_clean(call.value))
      [] call.name = "telefone.validate" -> telefone_validate(call.value, FALSE)
      [] call.name = "telefone.format" -> telefone_format(call.value)
      [] call.name = "telefone.clean" -> Return(telefone_clean(call.value))

\* TablesAfter with a validate that remembers a rejected CPF in BLACKLIST
TablesAfter_remember_rejected(call, tb) ==
    IF call.name = "cpf.validate" /\ CallResult(call) = Return(FALSE)
    THEN [tb EXCEPT !.cpf_blacklist = @ \cup {cpf_clean(call.value)}]
    ELSE tb

\* the shared tables after an operation ran: validate, format and clean
\* only test membership in them and index them, none assigns to them
TablesAfter(call, tb) == tb

(***************************************************************************)
(* Inputs                                                                  *)
(***************************************************************************)
\* n digits of which the last `free` vary and the others equal one seed digit
SeededDigits(n, free) ==
    {[i \in 1..n |-> IF i <= n - free THEN seed ELSE tail[i - (n - free)]] :
        seed \in 0..9, tail \in [1..free -> 0..9]}

\* the draws of n calls of random.randint(0, 9)
Draws(n) == SeededDigits(n, FreeDigits)

\* values of the filial argument
FilialInputs == {-1, 0, 1, 2, 10, 9999, 10000} \cup {1111 * d : d \in 1..9}

DigitStrings(n, free) == {join_digits(ds) : ds \in SeededDigits(n, free)}

\* characters str.isdigit accepts that are not "0".."9"
NonAsciiDigits == {"AR3", "SUP2"}

InsertAt(s, k, c) == SubSeq(s, 1, k) \o <<c>> \o SubSeq(s, k + 1, Len(s))

\* the usual written forms of a number of 11, 14, 8, 10 or 11 digits
WrittenCpf(s) == InsertAt(InsertAt(InsertAt(s, 9, "-"), 6, "."), 3, ".")

WrittenCnpj(s) == InsertAt(InsertAt(InsertAt(InsertAt(s, 12, "-"), 8, "/"), 5, "."), 2, ".")

WrittenCep(s) == InsertAt(s, 5, "-")

WrittenTelefone(s) ==
    InsertAt(InsertAt(InsertAt(InsertAt(s, Len(s) - 4, "-"), 2, " "), 2, ")"), 0, "(")

WrittenCpfBase(s) == InsertAt(InsertAt(s, 6, "."), 3, ".")

WrittenCnpjBase(s) == InsertAt(InsertAt(InsertAt(s, 8, "/"), 5, "."), 2, ".")

\* numbers of n digits, with one character replaced by a non-ASCII digit,
\* one digit short, two digits long
NumberInputs(n, free) ==
    LET exact == DigitStrings(n, free)
    IN  exact
        \cup {[c EXCEPT ![p] = u] :
                c \in DigitStrings(n, FreeDigits), p \in {1, n - 1, n}, u \in NonAsciiDigits}
        \cup {[k \in 1..n |-> u] : u \in NonAsciiDigits}
        \cup DigitStrings(n - 1, FreeDigits)
        \cup DigitStrings(n + 2, FreeDigits)

\* digits 9-12 of a CNPJ as a caller may write them
FilialStrings ==
    {<<"0", "0", "0", "0">>, <<"0", "0", "0", "1">>, <<"0", "0", "0", "2">>,
     <<"0", "0", "1", "0">>, <<"9", "9", "9", "9">>, <<"0", "0", "0", "AR3">>}

\* the CNPJ of a base and a branch, with the check digits that belong to it
CnpjOfBranch(b, f) == b \o f \o cnpj_get_check_digits(b \o f).val

\* CNPJs with matching check digits, plain and written, and other numbers
BranchInputs ==
    LET made == {CnpjOfBranch(b, f) : b \in DigitStrings(8, FreeDigits), f \in FilialStrings}
    IN  made \cup {WrittenCnpj(c) : c \in made} \cup NumberInputs(14, FreeDigits)

\* values of the ddd argument and first two digits of a number: every valid
\* DDD and some that are not
DddInputs ==
    DDDS_VALIDOS \cup {<<"0", "0">>, <<"1", "0">>, <<"2", "0">>, <<"2", "3">>,
                       <<"1", "AR3">>, <<"1">>, <<"0", "1", "1">>}

\* numbers of 10 and 11 digits by DDD and third digit, plain and written,
\* and other numbers
TelefoneInputs ==
    LET made == {ddd \o <<t>> \o r :
                    ddd \in DddInputs, t \in {"9", "3"},
                    r \in DigitStrings(7, 0) \cup DigitStrings(8, 0)}
    IN  made
        \cup {WrittenTelefone(c) : c \in {m \in made : Len(m) \in {10, 11}}}
        \cup NumberInputs(10, FreeDigits) \cup NumberInputs(11, FreeDigits)

\* values of the tipo argument of telefone.generate
TipoInputs == {"celular", "fixo", "movel"}

\* the DDD and the draws of random.randint(0, 9) of one telefone.generate
GenerateInputs ==
    {[ddd |-> ddd, digits |-> ds] : ddd \in DddInputs, ds \in SeededDigits(8, 0)}
    \cup {[ddd |-> ddd, digits |-> ds] : ddd \in {<<"1", "1">>, <<"9", "9">>}, ds \in Draws(8)}

\* values of the mostrar_final argument of pix.mascarar
MostrarFinalInputs == {0, 1, 4, 14, 20}

RECURSIVE StringsUpTo(_, _)
\* every string of at most n characters of the alphabet
StringsUpTo(alphabet, n) ==
    IF n = 0 THEN {<<>>}
    ELSE LET shorter == StringsUpTo(alphabet, n - 1)
         IN  shorter \cup {Append(x, c) : x \in {y \in shorter : Len(y) = n - 1}, c \in alphabet}

RawAlphabet == {"1", "AR3", "SUP2", ".", "a", " "}

PlacaAlphabet == {"a", "B", "1", "-", " ", ".", "SUP2"}

RawStrings == StringsUpTo(RawAlphabet, MaxRawLen)

PlacaStrings == StringsUpTo(PlacaAlphabet, MaxRawLen)

\* plates and near-plates, in upper case and without separators
PlacaBases ==
    {<<"A", "B", "C", "1", "2", "3", "4">>,
     <<"A", "B", "C", "1", "D", "2", "3">>,
     <<"Z", "Z", "Z", "9", "Z", "9", "9">>,
     <<"A", "B", "C", "D", "1", "2", "3">>,
     <<"A", "B", "C", "1", "2", "D", "3">>,
     <<"A", "B", "C", "1", "D", "2", "E">>,
     <<"1", "2", "3", "A", "B", "C", "D">>,
     <<"A", "B", "C", "1", "2", "3">>,
     <<"A", "B", "C", "1", "2", "3", "4", "5">>}

\* the ways a caller may write a plate
WrittenPlacas(p) ==
    {p, lower(p), <<" ">> \o p \o <<" ">>, p \o <<"NL">>,
     InsertAt(p, 3, "-"), lower(InsertAt(p, 3, "-")), InsertAt(p, 1, "-"),
     InsertAt(InsertAt(p, 3, "-"), 3, "-"), InsertAt(p, 4, "-"),
     InsertAt(p, 3, " "), InsertAt(p, 3, "."),
     SubSeq(p, 1, Len(p) - 1) \o <<"AR3">>, SubSeq(p, 1, Len(p) - 1) \o <<"SUP2">>}

PlacaInputs == PlacaStrings \cup UNION {WrittenPlacas(p) : p \in PlacaBases}

\* values of the tipo argument of placa.generate
PlacaTipoInputs == {"antiga", "mercosul", "moto"}

\* the draws of n letter positions: n - 1 equal ones and a last one
LetterDraws(n) ==
    {[i \in 1..n |-> IF i < n THEN seed ELSE last] : seed \in {0, 25}, last \in {0, 12, 25}}

\* the letters and digits generate draws for a tipo, none for a tipo it refuses
PlacaDraws(tipo) ==
    IF tipo = "antiga" THEN LetterDraws(3) \X Draws(4)
    ELSE IF tipo = "mercosul" THEN LetterDraws(4) \X Draws(3)
    ELSE {<<(<<>>), (<<>>)>>}

\* PIX keys as a caller may write them
PixKeys ==
    {<<"5", "2", "9", "9", "8", "2", "2", "4", "7", "2", "5">>,
     WrittenCpf(<<"5", "2", "9", "9", "8", "2", "2", "4", "7", "2", "5">>),
     <<"1", "1", "1", "1", "1", "1", "1", "1", "1", "1", "1">>,
     <<"1", "1", "2", "2", "2", "3", "3", "3", "0", "0", "0", "1", "8", "1">>,
     WrittenCnpj(<<"1", "1", "2", "2", "2", "3", "3", "3", "0", "0", "0", "1", "8", "1">>),
     <<"a", "@", "b", ".", "c", "d">>,
     <<"A", "@", "B", ".", "C", "D">>,
     <<"a", ".", "b", "@", "c", "-", "d", ".", "e", "f">>,
     <<"a", ".", ".", "b", "@", "c", ".", "d", "e">>,
     <<"a", "@", "b", ".", "c">>,
     <<"5", "2", "9", "9", "8", "2", "2", "4", "7", "2", "5", "@", "b", ".", "c", "d">>,
     <<"+", "5", "5", "1", "1", "9", "8", "7", "6", "5", "4", "3", "2", "1">>,
     <<"+", "5", "5", "1", "1", "3", "4", "5", "6", "7", "8", "9", "0">>,
     <<"+", "5", "5", "0", "0", "9", "8", "7", "6", "5", "4", "3", "2", "1">>,
     <<"1", "1", "9", "8", "7", "6", "5", "4", "3", "2", "1">>,
     WrittenTelefone(<<"1", "1", "9", "8", "7", "6", "5", "4", "3", "2", "1">>),
     <<"1", "1", "9", "0", "0", "0", "0", "0", "0", "8", "3">>,
     <<"+", "5", "5", "1", "1", "9", "0", "0", "0", "0", "0", "0", "8", "3">>,
     <<"a", "1", "b", "2", "c", "3", "d", "4", "-", "e", "5", "f", "6", "-", "4", "7", "8", "9",
       "-", "a", "1", "b", "2", "-", "c", "3", "d", "4", "e", "5", "f", "6", "a", "7", "b", "8">>,
     <<"A", "1", "B", "2", "C", "3", "D", "4", "-", "E", "5", "F", "6", "-", "1", "7", "8", "9",
       "-", "A", "1", "B", "2", "-", "C", "3", "D", "4", "E", "5", "F", "6", "A", "7", "B", "8">>,
     <<"a", "1", "b", "2", "c", "3", "d", "4", "e", "5", "f", "6", "4", "7", "8", "9",
       "a", "1", "b", "2", "c", "3", "d", "4", "e", "5", "f", "6", "a", "7", "b", "8">>,
     [k \in 1..32 |-> str(k % 10)],
     [k \in 1..32 |-> "AR3"],
     <<"i", "n", "v", "a", "l", "i", "d">>,
     <<>>}

\* the random digits uuid4 may draw: all zero, all f, a run through the
\* sixteen digits, and letters around eleven decimal digits
UuidDraws ==
    {[k \in 1..32 |-> "0"],
     [k \in 1..32 |-> "f"],
     [k \in 1..32 |-> HexDigits[(k % 16) + 1]],
     <<"5", "2", "9", "9", "8", "2", "2", "a", "b", "c", "d", "e", "f", "f", "a", "b",
       "e", "7", "2", "5", "a", "b", "c", "d", "e", "f", "a", "b", "c", "d", "e", "f">>,
     <<"a", "b", "c", "d", "e", "f", "a", "b", "c", "d", "e", "f", "0", "a", "b", "c",
       "d", "e", "f", "a", "b", "c", "d", "e", "f", "a", "b", "c", "d", "e", "f", "a">>}

\* values handed to the CEP lookups: valid plain and written, all zeros,
\* too short, empty, with a non-ASCII digit, not a number
CepLookupInputs ==
    {<<"0", "1", "3", "1", "0", "1", "0", "0">>,
     WrittenCep(<<"0", "1", "3", "1", "0", "1", "0", "0">>),
     <<"0", "0", "0", "0", "0", "0", "0", "0">>,
     WrittenCep(<<"0", "0", "0", "0", "0", "0", "0", "0">>),
     <<"1", "2", "3">>,
     <<>>,
     <<"0", "1", "3", "1", "0", "1", "0", "SUP2">>,
     <<"a", "b", "c">>}

\* values handed to the CNPJ lookup: valid plain and written, blacklisted,
\* wrong check digit, too short, empty, with a non-ASCII digit
CnpjLookupInputs ==
    {<<"1", "1", "2", "2", "2", "3", "3", "3", "0", "0", "0", "1", "8", "1">>,
     WrittenCnpj(<<"1", "1", "2", "2", "2", "3", "3", "3", "0", "0", "0", "1", "8", "1">>),
     [k \in 1..14 |-> "1"],
     <<"1", "1", "2", "2", "2", "3", "3", "3", "0", "0", "0", "1", "8", "2">>,
     <<"1", "2", "3">>,
     <<>>,
     <<"1", "1", "2", "2", "2", "3", "3", "3", "0", "0", "0", "1", "8", "SUP2">>}

\* what a remote API may answer: a status code with a JSON object, a JSON
\* object flagged erro, JSON that is no object, or no JSON; or no answer
Responses ==
    {[arrived |-> TRUE, status |-> s, body |-> b] :
        s \in {200, 404, 500}, b \in {"object", "erro", "list", "not_json"}}
    \cup {[arrived |-> FALSE, status |-> 0, body |-> "none"]}

\* the calls threads make: validate, format and clean of a valid, a
\* blacklisted and a wrong number of each kind
ConcurrentCalls ==
    {[name |-> n, value |-> v] :
        n \in {"cpf.validate", "cpf.format", "cpf.clean"},
        v \in {<<"5", "2", "9", "9", "8", "2", "2", "4", "7", "2", "5">>,
               <<"5", "2", "9", "9", "8", "2", "2", "4", "7", "2", "6">>,
               [k \in 1..11 |-> "1"]}}
    \cup {[name |-> n, value |-> v] :
        n \in {"cnpj.validate", "cnpj.format", "cnpj.clean"},
        v \in {<<"1", "1", "2", "2", "2", "3", "3", "3", "0", "0", "0", "1", "8", "1">>,
               [k \in 1..14 |-> "1"]}}
    \cup {[name |-> n, value |-> v] :
        n \in {"telefone.validate", "telefone.format", "telefone.clean"},
        v \in {<<"1", "1", "9", "8", "7", "6", "5", "4", "3", "2", "1">>,
               <<"2", "3", "9", "8", "7", "6", "5", "4", "3", "2", "1">>}}

\* what may surround a key: nothing, blanks, a zero-width space, a tab, junk
PixInputs ==
    PixKeys
    \cup {<<" ">> \o k \o <<" ", " ">> : k \in PixKeys}
    \cup {<<"ZWSP", " ">> \o k : k \in PixKeys}
    \cup {k \o <<"ZWSP">> : k \in PixKeys}
    \cup {<<"TAB">> \o k \o <<"NL">> : k \in PixKeys}
    \cup {k \o <<" ", "z">> : k \in PixKeys}
    \cup {<<"{">> \o k \o <<"}">> : k \in PixKeys}

(***************************************************************************)
(* Operations: each call starts from the idle state; the validators keep   *)
(* no state between calls.                                                 *)
(***************************************************************************)
Init ==
    /\ op = "start"
    /\ arg = <<>>
    /\ ret = Return(<<>>)
    /\ requests = <<>>
    /\ responses = <<>>
    /\ tables = InitialTables
    /\ calls = [t \in Threads |-> IdleThread]

\* a call that sends no HTTP request; no operation assigns to a shared table
Call(name, a, r) ==
    /\ op' = name
    /\ arg' = a
    /\ ret' = r
    /\ UNCHANGED <<requests, responses, tables, calls>>

\* a lookup starts: it ends at once or waits for its first request
Begin(name, a, r) ==
    /\ op' = name
    /\ arg' = a
    /\ ret' = r
    /\ requests' = IF r.kind = "request" THEN <<r.url>> ELSE <<>>
    /\ responses' = <<>>
    /\ UNCHANGED <<tables, calls>>

\* the answer to the pending request arrives and the lookup goes on to r
Respond(response, r) ==
    /\ ret' = r
    /\ requests' = IF r.kind = "request" THEN Append(requests, r.url) ELSE requests
    /\ responses' = Append(responses, response)
    /\ UNCHANGED <<op, arg, tables, calls>>

CpfGenerate ==
    /\ op = "start"
    /\ \E base_digits \in Draws(9), formatted \in BOOLEAN :
        Call("cpf.generate", [base_digits |-> base_digits, formatted |-> formatted],
             cpf_generate(base_digits, formatted))

CpfGetCheckDigits ==
    /\ op = "start"
    /\ \E cpf_base \in NumberInputs(9, FreeDigits) \cup {WrittenCpfBase(c) : c \in DigitStrings(9, FreeDigits)} :
        Call("cpf.get_check_digits", [value |-> cpf_base], cpf_get_check_digits(cpf_base))

CpfValidate ==
    /\ op = "start"
    /\ \E value \in NumberInputs(11, FreeDigits + 1) \cup {WrittenCpf(c) : c \in DigitStrings(11, FreeDigits + 1)}, raise_error \in BOOLEAN :
        Call("cpf.validate", [value |-> value, raise_error |-> raise_error],
             cpf_validate(value, raise_error))

CpfFormat ==
    /\ op = "start"
    /\ \E value \in NumberInputs(11, FreeDigits) \cup {WrittenCpf(c) : c \in DigitStrings(11, FreeDigits)} :
        Call("cpf.format", [value |-> value], cpf_format(value))

CpfClean ==
    /\ op = "start"
    /\ \E value \in RawStrings :
        Call("cpf.clean", [value |-> value], Return(cpf_clean(value)))

CnpjGenerate ==
    /\ op = "start"
    /\ \E base_digits \in Draws(8), formatted \in BOOLEAN, filial \in FilialInputs :
        Call("cnpj.generate",
             [base_digits |-> base_digits, formatted |-> formatted, filial |-> filial],
             cnpj_generate(base_digits, formatted, filial))

CnpjGetCheckDigits ==
    /\ op = "start"
    /\ \E cnpj_base \in NumberInputs(12, FreeDigits) \cup {WrittenCnpjBase(c) : c \in DigitStrings(12, FreeDigits)} :
        Call("cnpj.get_check_digits", [value |-> cnpj_base], cnpj_get_check_digits(cnpj_base))

CnpjValidate ==
    /\ op = "start"
    /\ \E value \in NumberInputs(14, FreeDigits + 1) \cup {WrittenCnpj(c) : c \in DigitStrings(14, FreeDigits + 1)}, raise_error \in BOOLEAN :
        Call("cnpj.validate", [value |-> value, raise_error |-> raise_error],
             cnpj_validate(value, raise_error))

CnpjFormat ==
    /\ op = "start"
    /\ \E value \in NumberInputs(14, FreeDigits) \cup {WrittenCnpj(c) : c \in DigitStrings(14, FreeDigits)} :
        Call("cnpj.format", [value |-> value], cnpj_format(value))

CnpjClean ==
    /\ op = "start"
    /\ \E value \in RawStrings :
        Call("cnpj.clean", [value |-> value], Return(cnpj_clean(value)))

CnpjGetNumeroFilial ==
    /\ op = "start"
    /\ \E value \in BranchInputs :
        Call("cnpj.get_numero_filial", [value |-> value], cnpj_get_numero_filial(value))

CnpjIsMatriz ==
    /\ op = "start"
    /\ \E value \in BranchInputs :
        Call("cnpj.is_matriz", [value |-> value], cnpj_is_matriz(value))

CnpjIsFilial ==
    /\ op = "start"
    /\ \E value \in BranchInputs :
        Call("cnpj.is_filial", [value |-> value], cnpj_is_filial(value))

CepFormat ==
    /\ op = "start"
    /\ \E value \in NumberInputs(8, FreeDigits) \cup {WrittenCep(c) : c \in DigitStrings(8, FreeDigits)} :
        Call("cep.format", [value |-> value], cep_format(value))

CepClean ==
    /\ op = "start"
    /\ \E value \in RawStrings :
        Call("cep.clean", [value |-> value], Return(cep_clean(value)))

TelefoneFormat ==
    /\ op = "start"
    /\ \E value \in NumberInputs(10, FreeDigits) \cup NumberInputs(11, FreeDigits)
                 \cup {WrittenTelefone(c) : c \in DigitStrings(10, FreeDigits)}
                 \cup {WrittenTelefone(c) : c \in DigitStrings(11, FreeDigits)} :
        Call("telefone.format", [value |-> value], telefone_format(value))

TelefoneClean ==
    /\ op = "start"
    /\ \E value \in RawStrings :
        Call("telefone.clean", [value |-> value], Return(telefone_clean(value)))

TelefoneValidate ==
    /\ op = "start"
    /\ \E value \in TelefoneInputs, raise_error \in BOOLEAN :
        Call("telefone.validate", [value |-> value, raise_error |-> raise_error],
             telefone_validate(value, raise_error))

TelefoneGenerate ==
    /\ op = "start"
    /\ \E tipo \in TipoInputs, g \in GenerateInputs, formatted \in BOOLEAN :
        \E primeiro \in IF tipo = "fixo" THEN 2..5 ELSE {9} :
            Call("telefone.generate",
                 [tipo |-> tipo, ddd |-> g.ddd, formatted |-> formatted,
                  primeiro |-> primeiro, digits |-> g.digits],
                 telefone_generate(tipo, g.ddd, formatted, primeiro, g.digits))

PlacaClean ==
    /\ op = "start"
    /\ \E value \in PlacaStrings :
        Call("placa.clean", [value |-> value], Return(placa_clean(value)))

PlacaValidate ==
    /\ op = "start"
    /\ \E value \in PlacaInputs, raise_error \in BOOLEAN :
        Call("placa.validate", [value |-> value, raise_error |-> raise_error],
             placa_validate(value, raise_error))

PlacaGetTipo ==
    /\ op = "start"
    /\ \E value \in PlacaInputs :
        Call("placa.get_tipo", [value |-> value], placa_get_tipo(value))

PlacaIsAntiga ==
    /\ op = "start"
    /\ \E value \in PlacaInputs :
        Call("placa.is_antiga", [value |-> value], placa_is_antiga(value))

PlacaIsMercosul ==
    /\ op = "start"
    /\ \E value \in PlacaInputs :
        Call("placa.is_mercosul", [value |-> value], placa_is_mercosul(value))

PlacaFormat ==
    /\ op = "start"
    /\ \E value \in PlacaInputs :
        Call("placa.format", [value |-> value], placa_format(value))

PlacaValidateAntiga ==
    /\ op = "start"
    /\ \E value \in PlacaInputs, raise_error \in BOOLEAN :
        Call("placa.validate_antiga", [value |-> value, raise_error |-> raise_error],
             placa_validate_antiga(value, raise_error))

PlacaValidateMercosul ==
    /\ op = "start"
    /\ \E value \in PlacaInputs, raise_error \in BOOLEAN :
        Call("placa.validate_mercosul", [value |-> value, raise_error |-> raise_error],
             placa_validate_mercosul(value, raise_error))

PlacaConverterParaMercosul ==
    /\ op = "start"
    /\ \E placa_antiga \in PlacaInputs :
        Call("placa.converter_para_mercosul", [placa_antiga |-> placa_antiga],
             placa_converter_para_mercosul(placa_antiga))

PlacaGenerate ==
    /\ op = "start"
    /\ \E tipo \in PlacaTipoInputs, formatted \in BOOLEAN :
        \E draws \in PlacaDraws(tipo) :
            Call("placa.generate",
                 [tipo |-> tipo, formatted |-> formatted,
                  letras |-> draws[1], numeros |-> draws[2]],
                 placa_generate(tipo, formatted, draws[1], draws[2]))

PixClean ==
    /\ op = "start"
    /\ \E value \in PixInputs :
        Call("pix.clean", [value |-> value], pix_clean(value))

PixDetectarTipo ==
    /\ op = "start"
    /\ \E value \in PixInputs :
        Call("pix.detectar_tipo", [value |-> value], Return(pix_detectar_tipo(value)))

PixValidate ==
    /\ op = "start"
    /\ \E value \in PixInputs, raise_error \in BOOLEAN :
        Call("pix.validate", [value |-> value, raise_error |-> raise_error],
             pix_validate(value, raise_error))

PixValidateAleatoria ==
    /\ op = "start"
    /\ \E value \in PixInputs, raise_error \in BOOLEAN :
        Call("pix.validate_aleatoria", [value |-> value, raise_error |-> raise_error],
             pix_validate_aleatoria(value, raise_error))

PixFormat ==
    /\ op = "start"
    /\ \E value \in PixInputs :
        Call("pix.format", [value |-> value], pix_format(value))

PixNormalizar ==
    /\ op = "start"
    /\ \E value \in PixInputs :
        Call("pix.normalizar", [value |-> value], pix_normalizar(value))

PixMascarar ==
    /\ op = "start"
    /\ \E value \in PixInputs, mostrar_final \in MostrarFinalInputs :
        Call("pix.mascarar", [value |-> value, mostrar_final |-> mostrar_final],
             pix_mascarar(value, mostrar_final))

PixSaoIguais ==
    /\ op = "start"
    /\ \E chave1 \in PixKeys, chave2 \in PixInputs :
        Call("pix.sao_iguais", [chave1 |-> chave1, chave2 |-> chave2],
             pix_sao_iguais(chave1, chave2))

PixGerarAleatoria ==
    /\ op = "start"
    /\ \E random \in UuidDraws :
        Call("pix.gerar_aleatoria", [random |-> random], pix_gerar_aleatoria(random))

CepConsultar ==
    /\ op = "start"
    /\ \E value \in CepLookupInputs, use_fallback \in BOOLEAN :
        Begin("cep.consultar", [value |-> value, use_fallback |-> use_fallback],
              cep_consultar_begin(value))

CepConsultarAsync ==
    /\ op = "start"
    /\ \E value \in CepLookupInputs, use_fallback \in BOOLEAN :
        Begin("cep.consultar_async", [value |-> value, use_fallback |-> use_fallback],
              cep_consultar_begin(value))

\* ViaCEP answers a pending consultar or consultar_async
CepConsultarResponse ==
    /\ op \in {"cep.consultar", "cep.consultar_async"}
    /\ ret = Request("viacep")
    /\ \E response \in Responses :
        Respond(response, cep_consultar_response(response, arg.use_fallback))

\* BrasilAPI answers a pending _consultar_fallback or _consultar_fallback_async
CepFallbackResponse ==
    /\ op \in {"cep.consultar", "cep.consultar_async"}
    /\ ret = Request("brasilapi")
    /\ \E response \in Responses :
        Respond(response, cep__consultar_fallback(response))

ConsultasCepConsultar ==
    /\ op = "start"
    /\ \E value \in CepLookupInputs, use_fallback \in BOOLEAN :
        Begin("consultas.cep.consultar", [value |-> value, use_fallback |-> use_fallback],
              consultas_cep_consultar_begin(value))

ConsultasCepConsultarAsync ==
    /\ op = "start"
    /\ \E value \in CepLookupInputs, use_fallback \in BOOLEAN :
        Begin("consultas.cep.consultar_async", [value |-> value, use_fallback |-> use_fallback],
              consultas_cep_consultar_begin(value))

ConsultasCepConsultarResponse ==
    /\ op \in {"consultas.cep.consultar", "consultas.cep.consultar_async"}
    /\ ret = Request("viacep")
    /\ \E response \in Responses :
        Respond(response, consultas_cep_consultar_response(response, arg.use_fallback))

ConsultasCepFallbackResponse ==
    /\ op \in {"consultas.cep.consultar", "consultas.cep.consultar_async"}
    /\ ret = Request("brasilapi")
    /\ \E response \in Responses :
        Respond(response, consultas_cep__consultar_fallback(response))

ConsultasCnpjConsultar ==
    /\ op = "start"
    /\ \E value \in CnpjLookupInputs, use_receitaws \in BOOLEAN :
        Begin("consultas.cnpj.consultar", [value |-> value, use_receitaws |-> use_receitaws],
              consultas_cnpj_consultar_begin(value, use_receitaws))

ConsultasCnpjConsultarResponse ==
    /\ op = "consultas.cnpj.consultar"
    /\ ret.kind = "request"
    /\ \E response \in Responses :
        Respond(response, consultas_cnpj_consultar_response(response))

\* a thread calls a validator operation while the other threads may be
\* inside calls of their own
ThreadBegin(t) ==
    /\ op \in {"start", "concurrent"}
    /\ calls[t].pc = "idle"
    /\ \E call \in ConcurrentCalls :
        calls' = [calls EXCEPT ![t] =
                     [pc |-> "running", call |-> call, result |-> Return(<<>>),
                      overlapped |-> \E u \in Threads : calls[u].pc = "running"]]
    /\ op' = "concurrent"
    /\ UNCHANGED <<arg, ret, requests, responses, tables>>

\* the call of a thread reads the shared tables as they are now, leaves
\* them as the operation leaves them, and returns
ThreadReturn(t) ==
    /\ calls[t].pc = "running"
    /\ calls' = [calls EXCEPT ![t].pc = "done", ![t].result = CallResult(calls[t].call)]
    /\ tables' = TablesAfter(calls[t].call, tables)
    /\ UNCHANGED <<op, arg, ret, requests, responses>>

\* the caller drops the result and is ready for the next call
NextCall ==
    /\ op # "start"
    /\ ret.kind # "request"
    /\ \A t \in Threads : calls[t].pc # "running"
    /\ op' = "start"
    /\ arg' = <<>>
    /\ ret' = Return(<<>>)
    /\ requests' = <<>>
    /\ responses' = <<>>
    /\ calls' = [t \in Threads |-> IdleThread]
    /\ UNCHANGED tables

Next ==
    \/ CpfGenerate
    \/ CpfGetCheckDigits
    \/ CpfValidate
    \/ CpfFormat
    \/ CpfClean
    \/ CnpjGenerate
    \/ CnpjGetCheckDigits
    \/ CnpjValidate
    \/ CnpjFormat
    \/ CnpjClean
    \/ CnpjGetNumeroFilial
    \/ CnpjIsMatriz
    \/ CnpjIsFilial
    \/ CepFormat
    \/ CepClean
    \/ TelefoneFormat
    \/ TelefoneClean
    \/ TelefoneValidate
    \/ TelefoneGenerate
    \/ PlacaClean
    \/ PlacaValidate
    \/ PlacaGetTipo
    \/ PlacaIsAntiga
    \/ PlacaIsMercosul
    \/ PlacaFormat
    \/ PlacaValidateAntiga
    \/ PlacaValidateMercosul
    \/ PlacaConverterParaMercosul
    \/ PlacaGenerate
    \/ PixClean
    \/ PixDetectarTipo
    \/ PixValidate
    \/ PixValidateAleatoria
    \/ PixFormat
    \/ PixNormalizar
    \/ PixMascarar
    \/ PixSaoIguais
    \/ PixGerarAleatoria
    \/ CepConsultar
    \/ CepConsultarAsync
    \/ CepConsultarResponse
    \/ CepFallbackResponse
    \/ ConsultasCepConsultar
    \/ ConsultasCepConsultarAsync
    \/ ConsultasCepConsultarResponse
    \/ ConsultasCepFallbackResponse
    \/ ConsultasCnpjConsultar
    \/ ConsultasCnpjConsultarResponse
    \/ \E t \in Threads : ThreadBegin(t)
    \/ \E t \in Threads : ThreadReturn(t)
    \/ NextCall

Spec == Init /\ [][Next]_vars

(***************************************************************************)
(* Properties                                                              *)
(***************************************************************************)
\* the decimal digits "0".."9" of a string, in order
AsciiDigitsOf(x) == SelectSeq(x, LAMBDA c : c \in AsciiDigitSet)

Separators == {".", "-", "/", " ", "(", ")"}

\* a string of digits "0".."9" and separators only
WrittenNumber(x) == \A k \in 1..Len(x) : x[k] \in AsciiDigitSet \cup Separators

\* C1: for every base of nine digits 0-9, the base followed by
\* cpf.get_check_digits(base) is accepted by cpf.validate, and every value
\* cpf.generate returns, formatted or not, is accepted by cpf.validate.
C1_GeneratedCpfValidates ==
    /\ op = "cpf.generate" =>
          Returned(ret) /\ ReturnedVal(cpf_validate(ret.val, FALSE), TRUE)
    /\ (op = "cpf.get_check_digits" /\ arg.value \in DigitStrings(9, FreeDigits)) =>
          Returned(ret) /\ ReturnedVal(cpf_validate(arg.value \o ret.val, FALSE), TRUE)

\* C2: cpf.generate never returns a value whose digits are a BLACKLIST
\* entry, whatever nine digits are drawn.
C2_GeneratedCpfNotBlacklisted ==
    op = "cpf.generate" => Returned(ret) /\ cpf_clean(ret.val) \notin CPF_BLACKLIST

\* C3: each all-same-digit string of 11 digits is rejected by cpf.validate
\* and each all-same-digit string of 14 digits by cnpj.validate, written
\* with or without separators: False without raise_error, the scheme's
\* error with it.
C3_BlacklistRejected ==
    /\ (/\ op = "cpf.validate"
        /\ WrittenNumber(arg.value)
        /\ AsciiDigitsOf(arg.value) \in {[k \in 1..11 |-> str(d)] : d \in 0..9}) =>
          IF arg.raise_error THEN Raised(ret, "InvalidCPF") ELSE ReturnedVal(ret, FALSE)
    /\ (/\ op = "cnpj.validate"
        /\ WrittenNumber(arg.value)
        /\ AsciiDigitsOf(arg.value) \in {[k \in 1..14 |-> str(d)] : d \in 0..9}) =>
          IF arg.raise_error THEN Raised(ret, "InvalidCNPJ") ELSE ReturnedVal(ret, FALSE)

\* C3 witness: "111.111.111-11" was given to cpf.validate and came back False
C3_Witness ==
    /\ op = "cpf.validate"
    /\ arg.value = WrittenCpf([k \in 1..11 |-> "1"])
    /\ ~arg.raise_error
    /\ ReturnedVal(ret, FALSE)

\* the check digit the claims give for a weighted sum
ClaimedDigit(total) == IF total % 11 < 2 THEN 0 ELSE 11 - (total % 11)

RECURSIVE ClaimedSum(_, _, _)
\* the sum over i = 1..n of digit i of b times weight i of w
ClaimedSum(b, w, n) ==
    IF n = 0 THEN 0 ELSE ClaimedSum(b, w, n - 1) + int(b[n]) * w[n]

\* the two check digits the claims give for a base b under weights w1, w2
ClaimedCheckDigits(b, w1, w2) ==
    LET d1 == ClaimedDigit(ClaimedSum(b, w1, Len(b)))
        d2 == ClaimedDigit(ClaimedSum(b \o <<str(d1)>>, w2, Len(b) + 1))
    IN  <<str(d1), str(d2)>>

\* C4: with at least 9 cleaned digits cpf.get_check_digits returns the two
\* digits computed on the first 9 of them with weights 10..2 and 11..2;
\* with fewer it raises InvalidCPF.
C4_CpfCheckDigits ==
    op = "cpf.get_check_digits" =>
        LET cleaned == cpf_clean(arg.value)
        IN  IF Len(cleaned) >= 9
            THEN /\ Returned(ret)
                 /\ ret.val = ClaimedCheckDigits(SubSeq(cleaned, 1, 9),
                                                 <<10, 9, 8, 7, 6, 5, 4, 3, 2>>,
                                                 <<11, 10, 9, 8, 7, 6, 5, 4, 3, 2>>)
            ELSE Raised(ret, "InvalidCPF")

\* C5: with at least 12 cleaned digits cnpj.get_check_digits returns the two
\* digits computed on the first 12 of them with weights
\* [5,4,3,2,9,8,7,6,5,4,3,2] and [6,5,4,3,2,9,8,7,6,5,4,3,2]; with fewer it
\* raises InvalidCNPJ.
C5_CnpjCheckDigits ==
    op = "cnpj.get_check_digits" =>
        LET cleaned == cnpj_clean(arg.value)
        IN  IF Len(cleaned) >= 12
            THEN /\ Returned(ret)
                 /\ ret.val = ClaimedCheckDigits(SubSeq(cleaned, 1, 12),
                                                 <<5, 4, 3, 2, 9, 8, 7, 6, 5, 4, 3, 2>>,
                                                 <<6, 5, 4, 3, 2, 9, 8, 7, 6, 5, 4, 3, 2>>)
            ELSE Raised(ret, "InvalidCNPJ")

\* C6: with raise_error=False cpf.validate and cnpj.validate never raise,
\* whatever the input string: they return True or False.
C6_ValidateNeverRaises ==
    (op \in {"cpf.validate", "cnpj.validate"} /\ ~arg.raise_error) =>
        Returned(ret) /\ ret.val \in BOOLEAN

\* C7: the clean of CPF, CNPJ, CEP and telefone returns exactly the
\* characters "0".."9" of its input, in their order.
C7_OnlyDecimalDigits ==
    op \in {"cpf.clean", "cnpj.clean", "cep.clean", "telefone.clean"} =>
        ReturnedVal(ret, AsciiDigitsOf(arg.value))

\* C8: clean is idempotent for every scheme: cleaning the result of a clean
\* gives the same result again.
C8_CleanIdempotent ==
    /\ op = "cpf.clean" => cpf_clean(ret.val) = ret.val
    /\ op = "cnpj.clean" => cnpj_clean(ret.val) = ret.val
    /\ op = "cep.clean" => cep_clean(ret.val) = ret.val
    /\ op = "telefone.clean" => telefone_clean(ret.val) = ret.val
    /\ op = "placa.clean" => placa_clean(ret.val) = ret.val
    /\ (op = "pix.clean" /\ Returned(ret)) => ReturnedVal(pix_clean(ret.val), ret.val)

\* C9: for every input whose cleaned form has the digit count of the scheme
\* (11 CPF, 14 CNPJ, 8 CEP, 10 or 11 telefone), format returns a value whose
\* cleaned form is the cleaned form of the input.
C9_FormatCleanRoundTrip ==
    /\ (op = "cpf.format" /\ Len(cpf_clean(arg.value)) = 11) =>
          Returned(ret) /\ cpf_clean(ret.val) = cpf_clean(arg.value)
    /\ (op = "cnpj.format" /\ Len(cnpj_clean(arg.value)) = 14) =>
          Returned(ret) /\ cnpj_clean(ret.val) = cnpj_clean(arg.value)
    /\ (op = "cep.format" /\ Len(cep_clean(arg.value)) = 8) =>
          Returned(ret) /\ cep_clean(ret.val) = cep_clean(arg.value)
    /\ (op = "telefone.format" /\ Len(telefone_clean(arg.value)) \in {10, 11}) =>
          Returned(ret) /\ telefone_clean(ret.val) = telefone_clean(arg.value)

\* C9 witness: a mobile number of 11 digits was formatted to a different
\* string
C9_Witness ==
    /\ op = "telefone.format"
    /\ Len(arg.value) = 11
    /\ telefone_clean(arg.value) = arg.value
    /\ Returned(ret)
    /\ Len(ret.val) = 15

\* C10: for a filial in 1..9999 cnpj.generate returns a value that
\* cnpj.validate accepts, that is no BLACKLIST entry and whose
\* get_numero_filial is that filial; for any other filial it raises
\* InvalidCNPJ.
C10_GeneratedCnpj ==
    op = "cnpj.generate" =>
        IF arg.filial \in 1..9999
        THEN /\ Returned(ret)
             /\ ReturnedVal(cnpj_validate(ret.val, FALSE), TRUE)
             /\ cnpj_clean(ret.val) \notin CNPJ_BLACKLIST
             /\ ReturnedVal(cnpj_get_numero_filial(ret.val), arg.filial)
        ELSE Raised(ret, "InvalidCNPJ")

\* C10 witness: a formatted CNPJ of filial 1111 was generated from eight
\* draws of the digit 1
C10_Witness ==
    /\ op = "cnpj.generate"
    /\ arg.filial = 1111
    /\ arg.base_digits = [k \in 1..8 |-> 1]
    /\ arg.formatted
    /\ Returned(ret)
    /\ Len(ret.val) = 18

\* C11: for a value cnpj.validate accepts, get_numero_filial returns an
\* integer in 1..9999, is_matriz is True exactly when it is 1 and is_filial
\* is True exactly when it is greater than 1.
C11_BranchNumber ==
    (/\ op \in {"cnpj.get_numero_filial", "cnpj.is_matriz", "cnpj.is_filial"}
     /\ ReturnedVal(cnpj_validate(arg.value, FALSE), TRUE)) =>
        LET n == cnpj_get_numero_filial(arg.value)
        IN  /\ Returned(n)
            /\ n.val \in 1..9999
            /\ op = "cnpj.get_numero_filial" => ret = n
            /\ op = "cnpj.is_matriz" => ret = Return(n.val = 1)
            /\ op = "cnpj.is_filial" => ret = Return(n.val > 1)

\* C12: telefone.validate accepts exactly the inputs whose cleaned digits
\* have length 10 or 11, a first two digits in DDDS_VALIDOS, and a third
\* digit that is "9" for length 11 and is not "9" for length 10; with
\* raise_error the error is that of the first failing test in the order
\* length, area code, mobile/landline marker.
C12_TelefoneValidate ==
    op = "telefone.validate" =>
        LET c      == telefone_clean(arg.value)
            lenOk  == Len(c) = 10 \/ Len(c) = 11
            dddOk  == lenOk /\ <<c[1], c[2]>> \in DDDS_VALIDOS
            markOk == dddOk /\ (Len(c) = 11 <=> c[3] = "9")
        IN  IF markOk THEN ret = Return(TRUE)
            ELSE IF ~arg.raise_error THEN ret = Return(FALSE)
            ELSE /\ Raised(ret, "InvalidTelefone")
                 /\ ret.msg = IF ~lenOk THEN "length"
                              ELSE IF ~dddOk THEN "ddd"
                              ELSE IF Len(c) = 11 THEN "celular_9"
                              ELSE "fixo_9"

\* C12 witness: a number of 10 digits with a valid DDD and third digit "9"
\* was refused with the landline error
C12_Witness ==
    /\ op = "telefone.validate"
    /\ arg.raise_error
    /\ Len(arg.value) = 10
    /\ <<arg.value[1], arg.value[2]>> = <<"2", "1">>
    /\ arg.value[3] = "9"
    /\ Raised(ret, "InvalidTelefone")
    /\ ret.msg = "fixo_9"

\* C13: for a DDD of DDDS_VALIDOS and a kind celular or fixo,
\* telefone.generate returns a number that telefone.validate accepts, whose
\* get_tipo is the kind and whose get_ddd is the DDD; any other DDD or kind
\* raises InvalidTelefone.
C13_GeneratedTelefone ==
    op = "telefone.generate" =>
        IF arg.ddd \in DDDS_VALIDOS /\ arg.tipo \in {"celular", "fixo"}
        THEN /\ Returned(ret)
             /\ ReturnedVal(telefone_validate(ret.val, FALSE), TRUE)
             /\ ReturnedVal(telefone_get_tipo(ret.val), arg.tipo)
             /\ ReturnedVal(telefone_get_ddd(ret.val), arg.ddd)
        ELSE Raised(ret, "InvalidTelefone")

\* C13 witness: a formatted landline of DDD 68 was generated with first
\* digit 5
C13_Witness ==
    /\ op = "telefone.generate"
    /\ arg.tipo = "fixo"
    /\ arg.ddd = <<"6", "8">>
    /\ arg.primeiro = 5
    /\ arg.formatted
    /\ Returned(ret)
    /\ Len(ret.val) = 14

\* the five kinds of key in the order detectar_tipo is said to try them
TiposEmOrdem == <<"cpf", "cnpj", "email", "telefone", "aleatoria">>

\* validate_<kind>(s) accepts
Aceita(tipo, s) ==
    IF tipo = "cpf" THEN pix_validate_cpf(s, FALSE).val
    ELSE IF tipo = "cnpj" THEN pix_validate_cnpj(s, FALSE).val
    ELSE IF tipo = "email" THEN pix_validate_email(s, FALSE).val
    ELSE IF tipo = "telefone" THEN pix_validate_telefone(s, FALSE).val
    ELSE pix_validate_aleatoria(s, FALSE).val

\* the first kind whose validator accepts s, "None" when none does
PrimeiroAceito(s) ==
    LET hits == {i \in 1..5 : Aceita(TiposEmOrdem[i], s)}
    IN  IF hits = {} THEN "None" ELSE TiposEmOrdem[SetMin(hits)]

\* C14: detectar_tipo returns the first of cpf, cnpj, email, telefone,
\* aleatoria whose validate_* accepts the sanitized value and None when none
\* does; validate is True exactly when detectar_tipo is not None.
C14_DetectarTipo ==
    /\ op = "pix.detectar_tipo" =>
            ret = Return(PrimeiroAceito(pix_sanitizar(arg.value)))
    /\ op = "pix.validate" =>
            IF pix_detectar_tipo(arg.value) # "None" THEN ret = Return(TRUE)
            ELSE IF arg.raise_error THEN Raised(ret, "InvalidPIX")
            ELSE ret = Return(FALSE)

\* C14 witness: a key that both the CPF and the email validator accept was
\* detected as a CPF
C14_Witness ==
    /\ op = "pix.detectar_tipo"
    /\ Aceita("cpf", arg.value)
    /\ Aceita("email", arg.value)
    /\ ret = Return("cpf")

\* the lower- and upper-case hexadecimal digits
AsciiHex == AsciiDigitSet \cup {"a", "b", "c", "d", "e", "f", "A", "B", "C", "D", "E", "F"}

\* s is xxxxxxxx-xxxx-4xxx-xxxx-xxxxxxxxxxxx
CanonicalV4(s) ==
    /\ Len(s) = 36
    /\ \A k \in 1..36 : IF k \in {9, 14, 19, 24} THEN s[k] = "-" ELSE s[k] \in AsciiHex
    /\ s[15] = "4"

\* C15: validate_aleatoria accepts a string only if it is a UUID in the
\* canonical hyphenated form of 36 characters whose version digit is 4.
C15_AleatoriaCanonicalV4 ==
    (op = "pix.validate_aleatoria" /\ ret = Return(TRUE)) =>
        CanonicalV4(pix_sanitizar(arg.value))

\* C16: format, clean, normalizar and mascarar raise InvalidPIX whenever no
\* type is detected for the sanitized input.
C16_DerivedRequireType ==
    (/\ op \in {"pix.format", "pix.clean", "pix.normalizar", "pix.mascarar"}
     /\ pix_detectar_tipo(pix_sanitizar(arg.value)) = "None") =>
        Raised(ret, "InvalidPIX")

\* a key of sao_iguais, sanitized and converted, has no detected type
SemTipo(chave) ==
    LET k == pix_sao_iguais_chave(chave)
    IN  ~Returned(k) \/ pix_detectar_tipo(k.val) = "None"

\* C17: sao_iguais never raises, and returns False whenever one of the two
\* keys, sanitized and with a national telephone number converted to the
\* PIX form, has no detected type.
C17_SaoIguaisNeverRaises ==
    op = "pix.sao_iguais" =>
        /\ Returned(ret)
        /\ ret.val \in BOOLEAN
        /\ (SemTipo(arg.chave1) \/ SemTipo(arg.chave2)) => ret.val = FALSE

\* C17 witness: the same key with no detected type was given twice
C17_Witness ==
    /\ op = "pix.sao_iguais"
    /\ arg.chave1 = arg.chave2
    /\ arg.chave1 # <<>>
    /\ SemTipo(arg.chave1)
    /\ ret = Return(FALSE)

\* C18: for a telephone key and mostrar_final >= 0, mascarar returns the
\* first 6 characters of the key, "****", and exactly its last mostrar_final
\* characters (none when mostrar_final is 0).
C18_MascararTelefone ==
    (/\ op = "pix.mascarar"
     /\ arg.mostrar_final >= 0
     /\ pix_detectar_tipo(arg.value) = "telefone") =>
        LET v == pix_sanitizar(arg.value)
            m == arg.mostrar_final
        IN  /\ m <= Len(v)
            /\ ret = Return(SubSeq(v, 1, 6) \o <<"*", "*", "*", "*">>
                            \o SubSeq(v, Len(v) - m + 1, Len(v)))

\* C19: detectar_tipo("11987654321") returns "telefone".
C19_NationalMobileDetected ==
    (/\ op = "pix.detectar_tipo"
     /\ arg.value = <<"1", "1", "9", "8", "7", "6", "5", "4", "3", "2", "1">>) =>
        ret = Return("telefone")

\* C20: for both kinds, formatted or not, and every draw, placa.generate
\* returns a plate that validate accepts and whose get_tipo is the requested
\* kind; and for every plate validate accepts, is_antiga and is_mercosul both
\* return and exactly one of them is True
C20_GeneratedPlaca ==
    /\ (op = "placa.generate" /\ arg.tipo \in {"antiga", "mercosul"}) =>
           /\ Returned(ret)
           /\ placa_validate(ret.val, FALSE) = Return(TRUE)
           /\ placa_get_tipo(ret.val) = Return(arg.tipo)
    /\ (op = "placa.validate" /\ ret = Return(TRUE)) =>
           LET a == placa_is_antiga(arg.value)
               m == placa_is_mercosul(arg.value)
           IN  /\ Returned(a) /\ Returned(m)
               /\ a.val \in BOOLEAN /\ m.val \in BOOLEAN
               /\ a.val # m.val
    /\ (op = "placa.is_antiga" /\ Returned(ret)) =>
           placa_is_mercosul(arg.value) = Return(~ret.val)
    /\ (op = "placa.is_mercosul" /\ Returned(ret)) =>
           placa_is_antiga(arg.value) = Return(~ret.val)

\* a formatted Mercosul plate was generated
C20_Witness ==
    /\ op = "placa.generate" /\ arg.tipo = "mercosul" /\ arg.formatted
    /\ arg.letras = <<25, 25, 25, 12>> /\ arg.numeros[1] = 9
    /\ ret = Return(<<"Z", "Z", "Z", "9", "M", "9", "9">>)

\* C21: placa.converter_para_mercosul("ABC-1234") returns "ABC1B34"
C21_ConverterExample ==
    (/\ op = "placa.converter_para_mercosul"
     /\ arg.placa_antiga = <<"A", "B", "C", "-", "1", "2", "3", "4">>) =>
        ret = Return(<<"A", "B", "C", "1", "B", "3", "4">>)

\* C30: for every input x, placa.validate(x) is True exactly when
\* placa.validate_antiga(x) or placa.validate_mercosul(x) is True
C30_ValidatorsAgree ==
    (op = "placa.validate" /\ ~arg.raise_error) =>
        (ret = Return(TRUE)) <=>
            \/ placa_validate_antiga(arg.value, FALSE) = Return(TRUE)
            \/ placa_validate_mercosul(arg.value, FALSE) = Return(TRUE)

\* the pairs <<weighted sum modulo 11, check digit returned>> of a call of
\* get_check_digits that returned
RemainderDigitPairs ==
    IF op \in {"cpf.get_check_digits", "cnpj.get_check_digits"} /\ Returned(ret)
    THEN LET cpf == op = "cpf.get_check_digits"
             n   == IF cpf THEN 9 ELSE 12
             w1  == IF cpf THEN <<10, 9, 8, 7, 6, 5, 4, 3, 2>>
                    ELSE <<5, 4, 3, 2, 9, 8, 7, 6, 5, 4, 3, 2>>
             w2  == IF cpf THEN <<11, 10, 9, 8, 7, 6, 5, 4, 3, 2>>
                    ELSE <<6, 5, 4, 3, 2, 9, 8, 7, 6, 5, 4, 3, 2>>
             b   == SubSeq(base__only_digits(arg.value), 1, n)
         IN  {<<ClaimedSum(b, w1, n) % 11, int(ret.val[1])>>,
              <<ClaimedSum(b \o <<ret.val[1]>>, w2, n + 1) % 11, int(ret.val[2])>>}
    ELSE {}

\* C25: whenever the weighted sum modulo 11 is not 0 or 1, the check digit
\* is 11 - remainder and lies in 2..9
C25_CheckDigitIn2To9 ==
    \A p \in RemainderDigitPairs :
        p[1] \notin {0, 1} => (p[2] = 11 - p[1] /\ p[2] \in 2..9)

\* C25 amended: whenever the weighted sum modulo 11 is not 0 or 1 it is in
\* 2..10, and the check digit is 11 - remainder and lies in 1..9
C25_CheckDigitIn1To9 ==
    \A p \in RemainderDigitPairs :
        p[1] \notin {0, 1} => (p[1] \in 2..10 /\ p[2] = 11 - p[1] /\ p[2] \in 1..9)

\* a check digit 1 was returned for the remainder 10
C25_Witness ==
    <<10, 1>> \in RemainderDigitPairs

\* the strings of n equal decimal digits
SameDigit(n) == {[k \in 1..n |-> str(d)] : d \in 0..9}

\* what C26 says of one scheme's validate called with raise_error=True on a
\* value whose cleaned form is `cleaned`
ChecksInOrder(exc, n, cleaned) ==
    /\ Len(cleaned) # n => ret = Raise(exc, "length")
    /\ cleaned \in SameDigit(n) => ret = Raise(exc, "blacklist")
    /\ ret = Raise(exc, "check_digits") => (Len(cleaned) = n /\ cleaned \notin SameDigit(n))

\* C26: with raise_error=True cpf.validate and cnpj.validate raise the error
\* of the first failing check in the order length, blacklist, check digits:
\* a wrong length raises the length error, an all-same-digit value of the
\* right length the repeated-digit error, and only a value of the right
\* length that is not all-same-digit raises the check-digit error
C26_ChecksInOrder ==
    /\ (op = "cpf.validate" /\ arg.raise_error) =>
           ChecksInOrder("InvalidCPF", 11, cpf_clean(arg.value))
    /\ (op = "cnpj.validate" /\ arg.raise_error) =>
           ChecksInOrder("InvalidCNPJ", 14, cnpj_clean(arg.value))

\* "11.111.111/1111-11", whose check digits are also wrong, raised the
\* repeated-digit error
C26_Witness ==
    /\ op = "cnpj.validate" /\ arg.raise_error
    /\ arg.value = WrittenCnpj([k \in 1..14 |-> "1"])
    /\ ~cnpj__validate_check_digits(cnpj_clean(arg.value)).val
    /\ ret = Raise("InvalidCNPJ", "blacklist")

AcceptingValidators(v) ==
    {t \in {"cpf", "cnpj", "email", "telefone", "aleatoria"} :
        \/ t = "cpf" /\ pix_validate_cpf(v, FALSE) = Return(TRUE)
        \/ t = "cnpj" /\ pix_validate_cnpj(v, FALSE) = Return(TRUE)
        \/ t = "email" /\ pix_validate_email(v, FALSE) = Return(TRUE)
        \/ t = "telefone" /\ pix_validate_telefone(v, FALSE) = Return(TRUE)
        \/ t = "aleatoria" /\ pix_validate_aleatoria(v, FALSE) = Return(TRUE)}

\* C29: at most one of the five variant validators accepts a sanitized
\* value, every value validate_email accepts is detected as email, and every
\* key gerar_aleatoria returns is detected as aleatoria.
C29_ValidatorsExclusive ==
    /\ op = "pix.detectar_tipo" =>
           LET accepting == AcceptingValidators(pix_sanitizar(arg.value))
           IN  /\ Cardinality(accepting) <= 1
               /\ "email" \in accepting => ret = Return("email")
    /\ op = "pix.gerar_aleatoria" => pix_detectar_tipo(ret.val) = "aleatoria"

CepLookups ==
    {"cep.consultar", "cep.consultar_async",
     "consultas.cep.consultar", "consultas.cep.consultar_async"}

\* C22: a lookup whose cleaned input fails validation raises InvalidCEP
\* (CEP lookups) or InvalidCNPJ (CNPJ lookup) and issues no HTTP request.
C22_ValidateBeforeRequest ==
    /\ (op \in CepLookups /\ cep_validate(cep_clean(arg.value), FALSE) # Return(TRUE)) =>
           Raised(ret, "InvalidCEP") /\ requests = <<>>
    /\ (op = "consultas.cnpj.consultar"
           /\ cnpj_validate(cnpj_clean(arg.value), FALSE) # Return(TRUE)) =>
           Raised(ret, "InvalidCNPJ") /\ requests = <<>>

\* the primary request failed with an HTTP-status or a connection error
PrimaryFailed == Len(responses) >= 1 /\ (~responses[1].arrived \/ responses[1].status >= 400)

\* the primary request was answered with a JSON object flagged erro
PrimaryFlaggedErro ==
    Len(responses) >= 1 /\ responses[1].arrived /\ responses[1].status < 400
        /\ responses[1].body = "erro"

\* C23: in CEPValidator.consultar the fallback API is requested only after
\* the primary request failed with an HTTP-status or connection error and
\* use_fallback is set, and then exactly once, two requests in total; without
\* use_fallback the failure raises CEPAPIError after one request; a primary
\* response flagged erro raises CEPNotFound after one request.
C23_FallbackOnlyAfterFailure ==
    op \in {"cep.consultar", "cep.consultar_async"} =>
        /\ Len(requests) <= 2
        /\ (\E k \in 1..Len(requests) : requests[k] = "brasilapi") =>
               PrimaryFailed /\ arg.use_fallback
        /\ (PrimaryFailed /\ arg.use_fallback) => requests = <<"viacep", "brasilapi">>
        /\ (PrimaryFailed /\ ~arg.use_fallback) =>
               Raised(ret, "CEPAPIError") /\ requests = <<"viacep">>
        /\ PrimaryFlaggedErro => Raised(ret, "CEPNotFound") /\ requests = <<"viacep">>

\* the primary API was unreachable and the fallback API answered
C23_Witness ==
    /\ op = "cep.consultar"
    /\ arg.use_fallback
    /\ requests = <<"viacep", "brasilapi">>
    /\ Len(responses) = 2
    /\ ~responses[1].arrived
    /\ ret = Return(<<"brasilapi", "object">>)

\* the fallback API answered that the CEP does not exist
FallbackNotFound == Len(responses) = 2 /\ responses[2].arrived /\ responses[2].status = 404

\* C27: in CEPConsulta, when the fallback API reports that the CEP does not
\* exist the lookup raises CEPNotFound, and a CEPAPIError raised after the
\* fallback request comes from a communication error with the fallback API.
C27_FallbackNotFound ==
    op \in {"consultas.cep.consultar", "consultas.cep.consultar_async"} =>
        /\ FallbackNotFound => Raised(ret, "CEPNotFound")
        /\ (Len(responses) = 2 /\ Raised(ret, "CEPAPIError")) => ~FallbackNotFound

====
